---- MODULE Spec2Model ----
(***************************************************************************)
(* Eco-MaaS fleet simulator (KinmenMapSim): the React state of the         *)
(* component, the latestDataRef / energyAccumulatorRef mirrors, the 20 Hz  *)
(* Stepper (updateGameLogic), the 1 Hz Broadcaster, resetSimulation and    *)
(* the policy-mode switch.                                                 *)
(*                                                                         *)
(* Reals are fixed-point integers:                                         *)
(*   route progress   1 waypoint  = PU units                               *)
(*   battery / energy 1 percent   = BU units                               *)
(*   position         1 pixel     = XU units                               *)
(*   simulated time   1 minute    = TU units  (one tick = 0.5 min = 1)     *)
(*   distance         1 unit      = 100 (distMoved = baseSpeed * 100)      *)
(***************************************************************************)
EXTENDS Integers, Sequences, FiniteSets, TLC

VARIABLES
    state,          \* the committed React state (useState values)
    ref,            \* latestDataRef.current
    acc,            \* energyAccumulatorRef.current
    pending,        \* setState calls queued and not yet rendered
    effectPending,  \* the ref-synchronising effect of the last commit has not run yet
    isRunning,      \* isRunningExternal: the Stepper interval exists
    snapshot,       \* the last payload handed to onSimulationUpdate
    root,           \* how the component is mounted: "legacy" or "concurrent"
    last,           \* history: what the latest Stepper invocation read and computed
    stateTag,       \* history: per field of state, <<reset generation, ticks folded in>>
    refTag,         \* history: the same for the fields of ref
    snapTag,        \* history: the same for the fields of snapshot
    hist            \* history: counters (resets, invocations since reset, ...)

vars == <<state, ref, acc, pending, effectPending, isRunning, snapshot, root, last,
          stateTag, refTag, snapTag, hist>>

----------------------------------------------------------------------------
(* Fixed-point units *)
PU == 10000
BU == 100000
XU == 10
TU == 2

(* Bounds of the exploration *)
MaxTicks == 2          \* Stepper invocations explored from a starting point
MaxControlOps == 2     \* reset / mode / stop / broadcast operations explored
MaxExtraArrivals == 0  \* stops, besides the certain ones, whose arrival draw succeeds

----------------------------------------------------------------------------
(* Section 1: global configuration *)

PLATOON_DISTANCE == 70
MIN_SEPARATION == 5
NumVehicles == 6
CAPACITY == 20
QUEUE_CEILING == 30
LOG_CAP == 10
CROWDED_LIMIT == 10
START_TIME == 480

\* the ids of LOCATIONS, in array order
StationSeq == <<"depot", "juguang", "zhaishan", "chenggong", "airport",
                "taiwu", "shanhou", "mashan", "guningtou">>
StationIds == {StationSeq[i] : i \in 1 .. Len(StationSeq)}

\* LOCATIONS: x, y in pixels, popularity in hundredths
LOCATIONS ==
    [s \in StationIds |->
        CASE s = "depot"     -> [x |-> 120, y |-> 280, type |-> "depot", popularity |-> 20]
          [] s = "juguang"   -> [x |-> 160, y |-> 360, type |-> "stop",  popularity |-> 90]
          [] s = "zhaishan"  -> [x |-> 130, y |-> 450, type |-> "stop",  popularity |-> 70]
          [] s = "chenggong" -> [x |-> 380, y |-> 440, type |-> "stop",  popularity |-> 60]
          [] s = "airport"   -> [x |-> 450, y |-> 350, type |-> "stop",  popularity |-> 100]
          [] s = "taiwu"     -> [x |-> 600, y |-> 250, type |-> "stop",  popularity |-> 80]
          [] s = "shanhou"   -> [x |-> 720, y |-> 120, type |-> "stop",  popularity |-> 50]
          [] s = "mashan"    -> [x |-> 620, y |-> 50,  type |-> "stop",  popularity |-> 60]
          [] OTHER           -> [x |-> 100, y |-> 80,  type |-> "stop",  popularity |-> 50]]

ZONE_MAPPING ==
    [s \in StationIds |->
        CASE s \in {"depot", "juguang"} -> "Jincheng"
          [] s = "zhaishan" -> "Shuitou"
          [] s \in {"chenggong", "shanhou", "mashan"} -> "Shanwai"
          [] s = "airport" -> "Airport"
          [] s = "taiwu" -> "Taiwu"
          [] OTHER -> "Guningtou"]

ROUTE_SEQUENCE == <<"depot", "juguang", "zhaishan", "chenggong", "airport",
                    "taiwu", "shanhou", "mashan", "guningtou", "depot">>

routeLen == Len(ROUTE_SEQUENCE)

\* ROUTE_SEQUENCE[i] with the 0-based index of the source
RouteAt(i) == ROUTE_SEQUENCE[i + 1]

getLoc(id) == LOCATIONS[id]

\* calcDist squared, on points in XU units (sqrt is monotone: d < c <=> d^2 < c^2)
calcDist2(p1, p2) == (p2.x - p1.x) * (p2.x - p1.x) + (p2.y - p1.y) * (p2.y - p1.y)

Vehicles == 0 .. (NumVehicles - 1)

----------------------------------------------------------------------------
(* Route interpolation: Math.floor(progress), Math.ceil(progress), progress % 1 *)

Floor(progress) == progress \div PU
Ceil(progress) == (progress + PU - 1) \div PU
\* variant of currIdxOf: the index wraps one waypoint early
currIdxShortLap(progress) == Floor(progress) % (routeLen - 1)

currIdxOf(progress) == Floor(progress) % routeLen
nextIdxOf(progress) == Ceil(progress) % routeLen
segProgOf(progress) == progress % PU

\* x = currLoc.x + dx * segProg ; y = currLoc.y + dy * segProg
InterpolatedPosition(progress) ==
    LET currLoc == getLoc(RouteAt(currIdxOf(progress)))
        nextLoc == getLoc(RouteAt(nextIdxOf(progress)))
        segProg == segProgOf(progress)
        dx == nextLoc.x - currLoc.x
        dy == nextLoc.y - currLoc.y
    IN  [x |-> currLoc.x * XU + (dx * XU * segProg) \div PU,
         y |-> currLoc.y * XU + (dy * XU * segProg) \div PU]

----------------------------------------------------------------------------
(* Power model *)

\* baseSpeed in PU units per tick: 0.005 platooning, 0.004 solo, * 0.7 uphill
BaseSpeed(isPlatooning, currLocId) ==
    LET flat == IF isPlatooning THEN 50 ELSE 40
    IN  IF currLocId \in {"taiwu", "zhaishan"} THEN (flat * 7) \div 10 ELSE flat

\* drag coefficient in tenths: 0.3 platooning, 0.8 solo
LOW_DRAG == 3
HIGH_DRAG == 8
DragCoeff(isPlatooning) == IF isPlatooning THEN LOW_DRAG ELSE HIGH_DRAG

\* instantPower = (0.5 * Cd * v^3 + basePower) * massFactor, in 1e-6, with
\*   simulatedV = baseSpeed * 150 ; massFactor = 1 + passengers * 0.005 ; basePower = 0.5
InstantPower(baseSpeed, dragCoeff, passengers) ==
    LET simulatedV == baseSpeed * 15                      \* in 1e-3
        v3 == simulatedV * simulatedV * simulatedV        \* in 1e-9
        aeroPower == (v3 \div 20) * dragCoeff             \* 0.5 * Cd * v^3, in 1e-9
    IN  (((aeroPower + 500000000) \div 1000) * (200 + passengers)) \div 200

\* energyConsumed = instantPower * 0.002, in BU units
EnergyPerTick(baseSpeed, dragCoeff, passengers) ==
    (InstantPower(baseSpeed, dragCoeff, passengers) * 2 * (BU \div 1000)) \div 1000000

----------------------------------------------------------------------------
(* Microgrid model (updateGameLogic, "Microgrid Physics").  Math.sin and   *)
(* Math.exp are evaluated by rational approximations on integers:          *)
(*   sin(pi*f)  ~ 16 f (1-f) / (5 - 4 f (1-f))            (Bhaskara)       *)
(*   exp(-y)    ~ 1 / (1 + y + y^2/2 + y^3/6)                              *)
(* solar is in percent, load in hundredths, price in tenths.               *)

HalfMinutesPerDay == 2880

\* 100 * sin(pi * u / 1440) for u in 0..1440
Sin100(u) == (1600 * u * (1440 - u)) \div (10368000 - 4 * u * (1440 - u))

\* hourOfDay > 6 && hourOfDay < 18 ? sin(((hourOfDay - 6) / 12) * PI) * 100 : 0
SolarOutput(hm) == IF hm > 720 /\ hm < 2160 THEN Sin100(hm - 720) ELSE 0

\* 50 + 20 sin(((h - 8) / 24) * 2 PI) + 30 exp(-(h - 19)^2 / 4), in hundredths
BaseLoad(hm) ==
    LET w == (hm - 960) % HalfMinutesPerDay
        diurnal == IF w <= 1440 THEN 20 * Sin100(w) ELSE 0 - 20 * Sin100(w - 1440)
        dd == hm - 2280
        yh == (dd * dd) \div 576
        denom == 6000000 + 60000 * yh + 300 * yh * yh + yh * yh * yh
        evening == IF yh > 800 THEN 0 ELSE 18000000 \div (denom \div 1000)
    IN  5000 + diurnal + evening

Max(a, b) == IF a >= b THEN a ELSE b
Min(a, b) == IF a <= b THEN a ELSE b

\* netLoad = Math.max(20, baseLoad - solarOutput * 0.6)
NetLoad(hm) == Max(2000, BaseLoad(hm) - SolarOutput(hm) * 60)

GRID_LOW == 40
GRID_HIGH == 80

\* the price / status tiers
GridTier(netLoad) ==
    IF netLoad < GRID_LOW * 100 THEN [price |-> 18, status |-> "GREEN"]
    ELSE IF netLoad > GRID_HIGH * 100 THEN [price |-> 65, status |-> "PEAK"]
    ELSE [price |-> 30, status |-> "NORMAL"]

GridInfo(solarOutput, netLoad, tier) ==
    [solar |-> solarOutput, load |-> netLoad, price |-> tier.price, status |-> tier.status]

\* gridInfo as the tick stores it, for newTime in TU units
GridStateAt(newTime) ==
    GridInfo(SolarOutput(newTime % HalfMinutesPerDay), NetLoad(newTime % HalfMinutesPerDay),
             GridTier(NetLoad(newTime % HalfMinutesPerDay)))

----------------------------------------------------------------------------
(* resetSimulation: the values it hands to the setters *)

ResetVehicles ==
    [i \in Vehicles |->
        [id |-> i, x |-> 120 * XU, y |-> 280 * XU,
         progress |-> (i * 6 * PU) \div 10,
         battery |-> (95 - i * 5) * BU,
         status |-> "moving", speed |-> 0, passengers |-> 0, capacity |-> CAPACITY,
         dragCoeff |-> HIGH_DRAG, power |-> 0, platooning |-> FALSE,
         aiState |-> "INIT", boardedLast |-> 0, alightedLast |-> 0]]

initialStations == [s \in StationIds |-> [queue |-> 0, totalServed |-> 0]]

ResetMetrics ==
    [totalEnergy |-> 0, totalEnergyBaseline |-> 0, totalServed |-> 0,
     totalDist |-> 0, platoonDist |-> 0, emptyDist |-> 0, totalWaitTime |-> 0,
     gridInfo |-> [solar |-> 0, load |-> 5000, price |-> 25, status |-> "NORMAL"]]

\* formatTime(mins): <<hours, minutes>> of the HH:MM string
formatTime(t) == <<((t \div TU) \div 60) % 24, (t \div TU) % 60>>

----------------------------------------------------------------------------
(* updateGameLogic: the per-vehicle body of currentVehicles.map *)

CHARGE_TARGET == 95
CHARGE_THRESHOLD == 30
POLICY_THRESHOLD == 25
WARN_HIGH == 15
WARN_LOW == 5
BOARD_LOG_MIN == 3

\* battery += 0.8
ChargeRate == (8 * BU) \div 10

\* aiAction = mode === 'baseline' ? 'BASELINE' : (battery < 25 ? 'CHARGE' : 'CRUISE')
aiAction(currentMode, battery) ==
    IF currentMode = "baseline" THEN "BASELINE"
    ELSE IF battery < POLICY_THRESHOLD * BU THEN "CHARGE" ELSE "CRUISE"

LogItem(category, kind, bus) == [category |-> category, msg |-> [kind |-> kind, bus |-> bus]]

NoStop == "none"

\* variant of ChargingStep: the charging vehicle keeps rolling
ChargingStepRolling(v) ==
    [veh |-> [v EXCEPT !.battery = v.battery + ChargeRate, !.progress = v.progress + 40,
                       !.speed = 0, !.power = 0 - 50, !.aiState = "CHARGING"],
     energy |-> 0, energyBaseline |-> 0, dist |-> 40, platoon |-> 0, empty |-> 0,
     stop |-> NoStop, boardedAt |-> NoStop, boarded |-> 0, logs |-> <<>>]

\* variant of ChargingStep: the charger never releases the vehicle
ChargingStepHolds(v) ==
    [veh |-> [v EXCEPT !.battery = Min(v.battery + ChargeRate, 100 * BU), !.speed = 0,
                       !.power = 0 - 50, !.aiState = "CHARGING"],
     energy |-> 0, energyBaseline |-> 0, dist |-> 0, platoon |-> 0, empty |-> 0,
     stop |-> NoStop, boardedAt |-> NoStop, boarded |-> 0, logs |-> <<>>]

\* A. charging logic
ChargingStep(v) ==
    LET battery == v.battery + ChargeRate
        status == IF battery >= CHARGE_TARGET * BU THEN "moving" ELSE "charging"
    IN  [veh |-> [v EXCEPT !.battery = battery, !.speed = 0, !.power = 0 - 50,
                           !.status = status, !.aiState = "CHARGING"],
         energy |-> 0, energyBaseline |-> 0, dist |-> 0, platoon |-> 0, empty |-> 0,
         stop |-> NoStop, boardedAt |-> NoStop, boarded |-> 0,
         logs |-> IF status = "moving"
                  THEN <<LogItem("SYSTEM", "chargeComplete", v.id)>> ELSE <<>>]

\* platoonPartner = currentVehicles.find(other => other.id !== v.id &&
\*    calcDist({x, y}, other) < PLATOON_DISTANCE && calcDist({x, y}, other) > 5)
\* pos is the vehicle's freshly interpolated {x, y}; other.x, other.y are the stored ones
HasPlatoonPartner(v, pos, currentVehicles) ==
    \E o \in DOMAIN currentVehicles :
        /\ currentVehicles[o].id # v.id
        /\ calcDist2(pos, currentVehicles[o]) < (PLATOON_DISTANCE * XU) * (PLATOON_DISTANCE * XU)
        /\ calcDist2(pos, currentVehicles[o]) > (MIN_SEPARATION * XU) * (MIN_SEPARATION * XU)

\* only the RL mode enables platooning
IsPlatooning(v, pos, currentVehicles, currentMode) ==
    currentMode = "rl" /\ HasPlatoonPartner(v, pos, currentVehicles)

\* variant of GoesCharging: the depot never takes a vehicle in
GoesChargingNever(stopId, battery, currentMode) == FALSE

\* variant of GoesCharging: the depot takes a low vehicle in whatever the mode
GoesChargingAnyMode(stopId, battery, currentMode) ==
    stopId = "depot" /\ battery < CHARGE_THRESHOLD * BU

\* stopId === 'depot' && battery < 30 && currentMode === 'rl'
GoesCharging(stopId, battery, currentMode) ==
    stopId = "depot" /\ battery < CHARGE_THRESHOLD * BU /\ currentMode = "rl"

\* Math.floor(Math.random() * (passengers * 0.4)), the draw in thousandths
Alighting(draw, passengers) == (draw * passengers * 4) \div 10000

\* variant of Boarding: the whole queue boards
BoardingWholeQueue(queue, capacity, passengers) == queue

\* Math.min(station.queue, v.capacity - passengers) when the station has a queue
Boarding(queue, capacity, passengers) ==
    IF queue > 0 THEN Min(queue, capacity - passengers) ELSE 0

\* battery < 15 && battery > 5
BatteryCritical(battery) == battery < WARN_HIGH * BU /\ battery > WARN_LOW * BU

\* the stop a vehicle reaches when Math.floor(newProgress) > Math.floor(progress)
ArrivalStop(progress, newProgress) ==
    IF Floor(newProgress) > Floor(progress)
    THEN RouteAt(Floor(newProgress) % routeLen) ELSE NoStop

\* variant of PlatoonDistance: a solo vehicle's distance counted twice as platoon distance
PlatoonDistanceOfSolo(isPlatooning, distMoved) ==
    IF isPlatooning THEN distMoved ELSE 2 * distMoved

\* if (isPlatooning) cyclePlatoon += distMoved
PlatoonDistance(isPlatooning, distMoved) == IF isPlatooning THEN distMoved ELSE 0

\* variant of ClearedPassengers: the riders stay aboard while the vehicle charges
ClearedPassengersKept(passengers) == passengers

\* passengers = 0 when the vehicle is sent to charge
ClearedPassengers(passengers) == 0

\* variant of FloorBattery: the battery written back as computed
FloorBatteryOff(battery) == battery

\* battery: Math.max(0, battery)
FloorBattery(battery) == Max(0, battery)

\* variant of BaselineEnergy: the shadow track computed with the platoon drag
BaselineEnergyLowDrag(baseSpeed, passengers) == EnergyPerTick(baseSpeed, LOW_DRAG, passengers)

\* 4. the baseline shadow energy: always the single-vehicle drag
BaselineEnergy(baseSpeed, passengers) == EnergyPerTick(baseSpeed, HIGH_DRAG, passengers)

\* D. the passenger exchange at the stop and the record the map callback returns
\*    (battery is the value after "battery -= energyConsumed", before Math.max(0, .))
ExchangeStep(v, currentStations, currentMode, rnd, pos, isPlatooning, baseSpeed, battery, stopId, toCharge) ==
    LET exchange == stopId # NoStop /\ ~toCharge
        currentAlighted == IF exchange THEN Alighting(rnd.alight, v.passengers)
                           ELSE v.alightedLast
        queue == IF exchange THEN currentStations[stopId].queue ELSE 0
        currentBoarded == IF exchange
                          THEN Boarding(queue, v.capacity, v.passengers - currentAlighted)
                          ELSE v.boardedLast
        platoonLog == IF isPlatooning /\ ~v.platooning /\ rnd.log
                      THEN <<LogItem("AI", "platoonEngaged", v.id)>> ELSE <<>>
        stopLog == IF toCharge THEN <<LogItem("AI", "returnToCharge", v.id)>>
                   ELSE IF queue > 0 /\ currentBoarded >= BOARD_LOG_MIN /\ rnd.log
                        THEN <<LogItem("AI", "boarding", v.id)>> ELSE <<>>
        warnLog == IF BatteryCritical(battery) /\ rnd.log
                   THEN <<LogItem("WARN", "batteryCritical", v.id)>> ELSE <<>>
    IN  [veh |-> [v EXCEPT !.x = pos.x, !.y = pos.y, !.progress = v.progress + baseSpeed,
                           !.battery = FloorBattery(battery),
                           !.status = IF toCharge THEN "charging" ELSE v.status,
                           !.platooning = isPlatooning,
                           !.dragCoeff = DragCoeff(isPlatooning),
                           !.speed = baseSpeed,
                           !.power = (InstantPower(baseSpeed, DragCoeff(isPlatooning),
                                                   v.passengers) + 500000) \div 1000000,
                           !.passengers = IF toCharge THEN ClearedPassengers(v.passengers)
                                          ELSE IF exchange
                                               THEN v.passengers - currentAlighted + currentBoarded
                                               ELSE v.passengers,
                           !.aiState = aiAction(currentMode, v.battery),
                           !.boardedLast = currentBoarded,
                           !.alightedLast = currentAlighted],
         energy |-> v.battery - battery,
         energyBaseline |-> BaselineEnergy(baseSpeed, v.passengers),
         dist |-> baseSpeed,
         platoon |-> PlatoonDistance(isPlatooning, baseSpeed),
         empty |-> IF v.passengers = 0 THEN baseSpeed ELSE 0,
         stop |-> stopId,
         boardedAt |-> IF queue > 0 THEN stopId ELSE NoStop,
         boarded |-> IF queue > 0 THEN currentBoarded ELSE 0,
         logs |-> platoonLog \o stopLog \o warnLog]

\* C. dual-track energy and the progress step, for the speed of this tick
EnergyStep(v, currentStations, currentMode, rnd, pos, isPlatooning, baseSpeed, battery, stopId) ==
    ExchangeStep(v, currentStations, currentMode, rnd, pos, isPlatooning, baseSpeed,
                 battery, stopId,
                 stopId # NoStop /\ GoesCharging(stopId, battery, currentMode))

SpeedStep(v, currentStations, currentMode, rnd, pos, isPlatooning, baseSpeed) ==
    EnergyStep(v, currentStations, currentMode, rnd, pos, isPlatooning, baseSpeed,
               v.battery - EnergyPerTick(baseSpeed, DragCoeff(isPlatooning), v.passengers),
               ArrivalStop(v.progress, v.progress + baseSpeed))

PlatoonStep(v, currentStations, currentMode, rnd, pos, isPlatooning) ==
    SpeedStep(v, currentStations, currentMode, rnd, pos, isPlatooning,
              BaseSpeed(isPlatooning, RouteAt(currIdxOf(v.progress))))

\* B. path interpolation, then the platooning check on the interpolated position
PositionStep(v, currentVehicles, currentStations, currentMode, rnd, pos) ==
    PlatoonStep(v, currentStations, currentMode, rnd, pos,
                IsPlatooning(v, pos, currentVehicles, currentMode))

MovingStep(v, currentVehicles, currentStations, currentMode, rnd) ==
    PositionStep(v, currentVehicles, currentStations, currentMode, rnd,
                 InterpolatedPosition(v.progress))

VehicleStep(v, currentVehicles, currentStations, currentMode, rnd) ==
    IF v.status = "charging" THEN ChargingStep(v)
    ELSE MovingStep(v, currentVehicles, currentStations, currentMode, rnd)

----------------------------------------------------------------------------
(* updateGameLogic: one whole Stepper invocation *)

RECURSIVE SumUpTo(_, _)
\* f[0] + ... + f[n]
SumUpTo(f, n) == IF n < 0 THEN 0 ELSE f[n] + SumUpTo(f, n - 1)

RECURSIVE ConcatUpTo(_, _)
\* f[0] \o ... \o f[n]
ConcatUpTo(f, n) == IF n < 0 THEN <<>> ELSE ConcatUpTo(f, n - 1) \o f[n]

SumOver(f) == SumUpTo(f, NumVehicles - 1)

\* STATION_WEIGHTS, in hundredths
STATION_WEIGHTS(id) ==
    CASE id = "airport" -> 200
      [] id = "depot" -> 150
      [] id = "mashan" -> 80
      [] id = "taiwu" -> 50
      [] OTHER -> 100

\* Math.random() < s.popularity * weight succeeds on every draw when the product is >= 1
CertainArrival(id) == LOCATIONS[id].popularity * STATION_WEIGHTS(id) >= 10000

Stops == {id \in StationIds : LOCATIONS[id].type # "depot"}

\* the outcomes of the arrival draws of one tick: gate closed, or the set of stops whose
\* draw succeeded
SpawnChoices ==
    {[gate |-> FALSE, at |-> {}]} \cup
    {[gate |-> TRUE, at |-> S \cup {id \in Stops : CertainArrival(id)}] :
        S \in {T \in SUBSET {id \in Stops : ~CertainArrival(id)} :
                   Cardinality(T) <= MaxExtraArrivals}}

\* the outcomes of Math.random() in the alighting draw (thousandths) and in the log gates
AlightDraws == {0, 999}
RandomDraws == [spawn : SpawnChoices, alight : AlightDraws, log : BOOLEAN]

\* variant of ApplyArrivals: an arrival joins the queue whatever its length
ApplyArrivalsNoCeiling(stations, at) ==
    [id \in StationIds |->
        IF id \in at /\ LOCATIONS[id].type # "depot"
        THEN [stations[id] EXCEPT !.queue = @ + 1]
        ELSE stations[id]]

\* setStations(prev => prev.map(...)) of the arrival step
ApplyArrivals(stations, at) ==
    [id \in StationIds |->
        IF id \in at /\ LOCATIONS[id].type # "depot" /\ stations[id].queue < QUEUE_CEILING
        THEN [stations[id] EXCEPT !.queue = @ + 1]
        ELSE stations[id]]

\* variant of ApplyBoarding: a station counts as served no more than were queueing
ApplyBoardingUpToQueue(stations, stationUpdates) ==
    [id \in StationIds |->
        IF stationUpdates[id] > 0
        THEN [queue |-> Max(0, stations[id].queue - stationUpdates[id]),
              totalServed |-> stations[id].totalServed
                                + Min(stations[id].queue, stationUpdates[id])]
        ELSE stations[id]]

\* setStations(prev => prev.map(...)) of the batched boarding step
ApplyBoarding(stations, stationUpdates) ==
    [id \in StationIds |->
        IF stationUpdates[id] > 0
        THEN [queue |-> Max(0, stations[id].queue - stationUpdates[id]),
              totalServed |-> stations[id].totalServed + stationUpdates[id]]
        ELSE stations[id]]

\* currentStations.reduce((acc, s) => acc + s.queue, 0)
TotalQueue(stations) ==
    SumUpTo([i \in 0 .. (Len(StationSeq) - 1) |-> stations[StationSeq[i + 1]].queue],
            Len(StationSeq) - 1)

\* Math.floor(newTime) % 5 === 0
IsSampleTick(newTime) == (newTime \div TU) % 5 = 0

RECURSIVE StepsUpTo(_, _, _, _, _)
\* currentVehicles.map(v => ...) for the vehicles 0..n
StepsUpTo(n, currentVehicles, currentStations, currentMode, rnd) ==
    IF n = 0
    THEN 0 :> VehicleStep(currentVehicles[0], currentVehicles, currentStations,
                          currentMode, rnd)
    ELSE StepsUpTo(n - 1, currentVehicles, currentStations, currentMode, rnd)
         @@ (n :> VehicleStep(currentVehicles[n], currentVehicles, currentStations,
                              currentMode, rnd))

\* everything one invocation hands to the setters, from the per-vehicle results
TickTotals(steps, currentStations, newTime, rnd) ==
    [kind |-> "tick",
     newTime |-> newTime,
     spawn |-> rnd.spawn,
     nextVehicles |-> [i \in Vehicles |-> steps[i].veh],
     stationUpdates |->
        [id \in StationIds |->
            SumOver([i \in Vehicles |->
                        IF steps[i].boardedAt = id THEN steps[i].boarded ELSE 0])],
     cycleEnergy |-> SumOver([i \in Vehicles |-> steps[i].energy]),
     cycleEnergyBaseline |-> SumOver([i \in Vehicles |-> steps[i].energyBaseline]),
     cycleDist |-> SumOver([i \in Vehicles |-> steps[i].dist]),
     cyclePlatoon |-> SumOver([i \in Vehicles |-> steps[i].platoon]),
     cycleEmpty |-> SumOver([i \in Vehicles |-> steps[i].empty]),
     cycleServed |-> SumOver([i \in Vehicles |-> steps[i].boarded]),
     waitDelta |-> TotalQueue(currentStations),
     gridInfo |-> GridStateAt(newTime),
     sample |-> IsSampleTick(newTime),
     avgSoC |-> SumOver([i \in Vehicles |-> steps[i].veh.battery]) \div NumVehicles,
     logBuffer |->
        ConcatUpTo([i \in Vehicles |-> steps[i].logs], NumVehicles - 1)
        \o (IF IsSampleTick(newTime)
            THEN <<LogItem("SYSTEM",
                           IF TotalQueue(currentStations) > 0
                           THEN "congestionSummary" ELSE "congestionStable", 0 - 1)>>
            ELSE <<>>),
     \* history: what each vehicle did
     stop |-> [i \in Vehicles |-> steps[i].stop],
     boarded |-> [i \in Vehicles |-> steps[i].boarded],
     energy |-> [i \in Vehicles |-> steps[i].energy],
     energyBaseline |-> [i \in Vehicles |-> steps[i].energyBaseline],
     dist |-> [i \in Vehicles |-> steps[i].dist]]

TickResult(currentVehicles, currentStations, currentMode, currentGameTime, rnd) ==
    TickTotals(StepsUpTo(NumVehicles - 1, currentVehicles, currentStations, currentMode, rnd),
               currentStations, currentGameTime + 1, rnd)

----------------------------------------------------------------------------
(* React plumbing: setState calls, render/commit, the ref effect.  The      *)
(* component does not fix how it is mounted, and React schedules the       *)
(* same handlers differently for its two kinds of root:                     *)
(*   "legacy"     (ReactDOM.render, React 17 and earlier): a setState call  *)
(*                made in a timer callback is rendered and committed before *)
(*                it returns; the calls of an event handler are rendered in *)
(*                one batch when the handler returns; a passive effect runs *)
(*                later, at the latest when the next render starts.         *)
(*   "concurrent" (createRoot): the setState calls of a timer callback are  *)
(*                queued and rendered in one batch by a later task, and the *)
(*                passive effects of that commit by a task after it; the    *)
(*                calls of an event handler are rendered when the handler   *)
(*                returns and their passive effects run with the commit.    *)

Roots == {"legacy", "concurrent"}

HISTORY_CAP == 40

Tag(gen, n) == [gen |-> gen, n |-> n]
TagFields == {"vehicles", "gameTime", "stations", "metrics"}

\* addLog: the entry it builds; refTime is latestDataRef.current.gameTime at the call
LogEntry(refTime, item) ==
    [time |-> formatTime(refTime), category |-> item.category, message |-> item.msg]

\* latestDataRef.current.gameTime when the addLog calls of a tick run: under a legacy
\* root the render of setVehicles has already run the effect of setGameTime's commit
LogClock(rootKind, currentGameTime, newTime) ==
    IF rootKind = "legacy" THEN newTime ELSE currentGameTime

\* variant of PushLog: the entry joins the log at its tail
PushLogAtTail(logs, entry) == SubSeq(Append(logs, entry), 1, Min(Len(logs) + 1, LOG_CAP))

\* setLogs(prev => [newLog, ...prev].slice(0, 10))
PushLog(logs, entry) == SubSeq(<<entry>> \o logs, 1, Min(Len(logs) + 1, LOG_CAP))

RECURSIVE PushLogs(_, _)
PushLogs(logs, entries) ==
    IF entries = <<>> THEN logs
    ELSE PushLogs(PushLog(logs, Head(entries)), Tail(entries))

\* setStatsHistory(prev => [...prev, sample].slice(-40))
PushHistory(history, sample) ==
    IF Len(history) + 1 > HISTORY_CAP
    THEN SubSeq(Append(history, sample), Len(history) + 2 - HISTORY_CAP, Len(history) + 1)
    ELSE Append(history, sample)

\* variant of FoldMetrics: the wait time of the tick replaces the total
FoldMetricsLastWait(prev, b, accNow) ==
    [totalEnergy |-> accNow.total,
     totalEnergyBaseline |-> accNow.baseline,
     totalServed |-> prev.totalServed + b.cycleServed,
     totalDist |-> prev.totalDist + b.cycleDist,
     platoonDist |-> prev.platoonDist + b.cyclePlatoon,
     emptyDist |-> prev.emptyDist + b.cycleEmpty,
     totalWaitTime |-> b.waitDelta,
     gridInfo |-> b.gridInfo]

\* the setMetrics updater of a tick; the accumulator ref is read when the updater runs
FoldMetrics(prev, b, accNow) ==
    [totalEnergy |-> accNow.total,
     totalEnergyBaseline |-> accNow.baseline,
     totalServed |-> prev.totalServed + b.cycleServed,
     totalDist |-> prev.totalDist + b.cycleDist,
     platoonDist |-> prev.platoonDist + b.cyclePlatoon,
     emptyDist |-> prev.emptyDist + b.cycleEmpty,
     totalWaitTime |-> prev.totalWaitTime + b.waitDelta,
     gridInfo |-> b.gridInfo]

\* the setState calls of one updateGameLogic invocation, applied to the state
ApplyTick(st, b, accNow) ==
    [gameTime |-> b.newTime,
     stations |-> ApplyBoarding(IF b.spawn.gate THEN ApplyArrivals(st.stations, b.spawn.at)
                                ELSE st.stations,
                                b.stationUpdates),
     vehicles |-> b.nextVehicles,
     logs |-> PushLogs(st.logs, b.logEntries),
     metrics |-> FoldMetrics(st.metrics, b, accNow),
     statsHistory |->
        IF b.sample
        THEN PushHistory(st.statsHistory,
                         [time |-> formatTime(b.newTime),
                          avgSoC |-> (b.avgSoC + BU \div 2) \div BU,
                          energy |-> accNow.total, baseline |-> accNow.baseline])
        ELSE st.statsHistory,
     mode |-> st.mode]

\* the setState calls of resetSimulation, applied to the state
ApplyReset(st, b) ==
    [gameTime |-> START_TIME * TU,
     stations |-> initialStations,
     vehicles |-> ResetVehicles,
     logs |-> PushLog(<<>>, b.logEntry),
     metrics |-> ResetMetrics,
     statsHistory |-> <<>>,
     mode |-> st.mode]

ApplyBatch(st, b, accNow) ==
    CASE b.kind = "tick" -> ApplyTick(st, b, accNow)
      [] b.kind = "reset" -> ApplyReset(st, b)
      [] OTHER -> [st EXCEPT !.mode = b.mode]

\* history: which reset generation and how many ticks each field holds after a batch
TagBatch(tag, b) ==
    CASE b.kind = "tick" ->
            [vehicles |-> b.vTag, gameTime |-> b.tTag,
             stations |-> Tag(tag.stations.gen, tag.stations.n + 1),
             metrics |-> Tag(tag.metrics.gen, tag.metrics.n + 1)]
      [] b.kind = "reset" -> [f \in TagFields |-> Tag(b.gen, 0)]
      [] OTHER -> tag

RECURSIVE Render(_, _, _)
\* one render: the queued updates applied in the order they were made
Render(st, batches, accNow) ==
    IF batches = <<>> THEN st
    ELSE Render(ApplyBatch(st, Head(batches), accNow), Tail(batches), accNow)

RECURSIVE RenderTag(_, _)
RenderTag(tag, batches) ==
    IF batches = <<>> THEN tag ELSE RenderTag(TagBatch(tag, Head(batches)), Tail(batches))

RefFields == {"vehicles", "gameTime", "metrics", "stations", "mode", "logs"}

\* latestDataRef.current = { vehicles, gameTime, metrics, stations, mode, logs }
RefOf(st) == [f \in RefFields |-> st[f]]

\* the ref when a tick returns under a legacy root: every commit of the tick but the
\* last has had its effect run by the render that followed it; the last setState of a
\* tick is the addLog of the sampling step, or else setMetrics
LegacyRef(stOld, stNew, b) ==
    IF b.sample
    THEN [RefOf(stNew) EXCEPT
            !.logs = PushLogs(stOld.logs, SubSeq(b.logEntries, 1, Len(b.logEntries) - 1))]
    ELSE [RefOf(stNew) EXCEPT !.metrics = stOld.metrics]

LegacyRefTag(tagOld, tagNew, b) ==
    IF b.sample THEN tagNew ELSE [tagNew EXCEPT !.metrics = tagOld.metrics]

\* the queue of updates a later render still has to apply after an event handler's own
\* render: updates queued by timer callbacks are skipped by that render and replayed,
\* followed by the handler's, when their render runs
Rebase(queue, b) == IF queue = <<>> THEN queue ELSE Append(queue, b)

----------------------------------------------------------------------------
(* The Broadcaster's mapping of the ref to the payload *)

NEAR_STATION == 50

Point(id) == [x |-> LOCATIONS[id].x * XU, y |-> LOCATIONS[id].y * XU]

RECURSIVE NearestFrom(_, _, _)
\* LOCATIONS.forEach(loc => { if (dist < minDistance) ... }): the first of the nearest
NearestFrom(v, i, best) ==
    IF i > Len(StationSeq) THEN best
    ELSE NearestFrom(v, i + 1,
                     IF calcDist2(v, Point(StationSeq[i])) < calcDist2(v, Point(best))
                     THEN StationSeq[i] ELSE best)

MapVehicle(v) ==
    [id |-> v.id,
     zone |-> ZONE_MAPPING[NearestFrom(v, 2, StationSeq[1])],
     soc |-> v.battery,
     status |-> IF v.status = "moving"
                THEN (IF v.passengers > 0 THEN "Service" ELSE "Idle")
                ELSE "Charging",
     passengers |-> v.passengers]

MapStation(id, st, vehicles) ==
    [id |-> id,
     waitingCount |-> st.queue,
     totalServed |-> st.totalServed,
     currentBusCount |->
        Cardinality({i \in DOMAIN vehicles :
            calcDist2(vehicles[i], Point(id)) < (NEAR_STATION * XU) * (NEAR_STATION * XU)}),
     status |-> IF st.queue > CROWDED_LIMIT THEN "CROWDED" ELSE "NORMAL"]

Payload(r) ==
    [vehicles |-> [i \in DOMAIN r.vehicles |-> MapVehicle(r.vehicles[i])],
     stations |-> [id \in StationIds |-> MapStation(id, r.stations[id], r.vehicles)],
     gameTime |-> r.gameTime,
     metrics |-> r.metrics,
     logs |-> r.logs]

----------------------------------------------------------------------------
(* The ratios shown from the metrics: the KPI boxes of the component and    *)
(* the prompt of the chat widget                                            *)

RECURSIVE DivDigits(_, _, _)
\* floor(num * 10^digits / den), by long division
DivDigits(num, den, digits) ==
    IF digits = 0 THEN num \div den
    ELSE (num \div den) * (10 ^ digits) + DivDigits((num % den) * 10, den, digits - 1)

\* ((num / den) * 100).toFixed(decimals), in units of 10^-decimals percent
PercentFixed(num, den, decimals) == (DivDigits(num, den, decimals + 3) + 5) \div 10

\* metrics.totalDist > 0 ? ((metrics.platoonDist / metrics.totalDist) * 100).toFixed(0) : 0
PlatoonRatio(m) == IF m.totalDist > 0 THEN PercentFixed(m.platoonDist, m.totalDist, 0) ELSE 0

\* metrics.totalDist > 0 ? ((metrics.emptyDist / metrics.totalDist) * 100).toFixed(0) : 0
EmptyRatio(m) == IF m.totalDist > 0 THEN PercentFixed(m.emptyDist, m.totalDist, 0) ELSE 0

\* metrics.totalEnergyBaseline > 0
\*   ? (((totalEnergyBaseline - totalEnergy) / totalEnergyBaseline) * 100).toFixed(1) : 0
SavingRatio(m) ==
    IF m.totalEnergyBaseline > 0
    THEN PercentFixed(m.totalEnergyBaseline - m.totalEnergy, m.totalEnergyBaseline, 1)
    ELSE 0

----------------------------------------------------------------------------
(* Starting points.  The first is the state the mount leaves (the ref       *)
(* effect, then resetSimulation, rendered and synchronised).  The others    *)
(* are states of longer runs from it, in which every tick was rendered and  *)
(* synchronised before the next one fired.                                  *)

Veh(id, x, y, progress, battery, status, speed, passengers, dragCoeff, power, platooning, aiState, boardedLast, alightedLast) ==
    [id |-> id, x |-> x, y |-> y, progress |-> progress, battery |-> battery,
     status |-> status, speed |-> speed, passengers |-> passengers, capacity |-> CAPACITY,
     dragCoeff |-> dragCoeff, power |-> power, platooning |-> platooning,
     aiState |-> aiState, boardedLast |-> boardedLast, alightedLast |-> alightedLast]

Fleet(seq) == [i \in Vehicles |-> seq[i + 1]]

\* a log entry of a past tick: the time the tick read and the time it set
Log(readTime, newTime, category, kind, bus) ==
    [read |-> readTime, new |-> newTime, item |-> LogItem(category, kind, bus)]

Sample(h, m, avgSoC, energy, baseline) ==
    [time |-> <<h, m>>, avgSoC |-> avgSoC, energy |-> energy, baseline |-> baseline]

ScenarioLogs(rootKind, raw) ==
    [i \in 1 .. Len(raw) |-> LogEntry(LogClock(rootKind, raw[i].read, raw[i].new), raw[i].item)]

ResetScenario ==
    [name |-> "reset", mode |-> "rl", k |-> 0, platooned |-> FALSE,
     vehicles |-> ResetVehicles, stations |-> initialStations,
     metrics |-> ResetMetrics,
     logs |-> <<Log(START_TIME * TU, START_TIME * TU, "SYSTEM", "initialized", 0 - 1)>>,
     statsHistory |-> <<>>,
     acc |-> [total |-> 0, baseline |-> 0]]

\* 448 ticks after a reset in RL mode (no arrival draw succeeded): vehicles 3 and 4 are
\* just inside the platoon distance of each other
PlatoonEdgeScenario ==
    [name |-> "platoonEdge", mode |-> "rl", k |-> 448, platooned |-> TRUE,
     vehicles |->
        Fleet(<<Veh(0, 1568, 4489, 21102, 9449877, "moving", 28, 0, 8, 1, FALSE, "CRUISE", 0, 0),
                Veh(1, 2617, 4447, 25299, 8951085, "moving", 28, 0, 8, 1, FALSE, "CRUISE", 0, 0),
                Veh(2, 3518, 4411, 28909, 8451947, "moving", 35, 0, 3, 1, TRUE, "CRUISE", 0, 0),
                Veh(3, 4021, 4114, 33218, 7952053, "moving", 50, 0, 3, 1, TRUE, "CRUISE", 0, 0),
                Veh(4, 4451, 3563, 39340, 7450164, "moving", 40, 0, 8, 1, FALSE, "CRUISE", 0, 0),
                Veh(5, 5682, 2712, 47920, 6947584, "moving", 40, 0, 8, 1, FALSE, "CRUISE", 0, 0)>>),
     stations |-> initialStations,
     metrics |->
        [totalEnergy |-> 297290, totalEnergyBaseline |-> 317744, totalServed |-> 0,
         totalDist |-> 105788, platoonDist |-> 53980, emptyDist |-> 105788, totalWaitTime |-> 0,
         gridInfo |-> [solar |-> 99, load |-> 2000, price |-> 18, status |-> "GREEN"]],
     logs |-> <<Log(1400, 1401, "SYSTEM", "congestionStable", 0 - 1), Log(1399, 1400, "SYSTEM", "congestionStable", 0 - 1),
               Log(1390, 1391, "SYSTEM", "congestionStable", 0 - 1), Log(1389, 1390, "SYSTEM", "congestionStable", 0 - 1),
               Log(1380, 1381, "SYSTEM", "congestionStable", 0 - 1), Log(1379, 1380, "SYSTEM", "congestionStable", 0 - 1),
               Log(1370, 1371, "SYSTEM", "congestionStable", 0 - 1), Log(1369, 1370, "SYSTEM", "congestionStable", 0 - 1),
               Log(1360, 1361, "SYSTEM", "congestionStable", 0 - 1), Log(1359, 1360, "SYSTEM", "congestionStable", 0 - 1)>>,
     statsHistory |-> <<Sample(10, 5, 82, 165681, 181536), Sample(10, 5, 82, 166349, 182246),
                       Sample(10, 10, 82, 172361, 188636), Sample(10, 10, 82, 173029, 189346),
                       Sample(10, 15, 82, 179041, 195736), Sample(10, 15, 82, 179709, 196446),
                       Sample(10, 20, 82, 185721, 202836), Sample(10, 20, 82, 186381, 203524),
                       Sample(10, 25, 82, 192321, 209716), Sample(10, 25, 82, 192981, 210404),
                       Sample(10, 30, 82, 198921, 216596), Sample(10, 30, 82, 199581, 217284),
                       Sample(10, 35, 82, 205521, 223476), Sample(10, 35, 82, 206181, 224164),
                       Sample(10, 40, 82, 212121, 230356), Sample(10, 40, 82, 212781, 231044),
                       Sample(10, 45, 82, 218721, 237236), Sample(10, 45, 82, 219381, 237924),
                       Sample(10, 50, 82, 225321, 244116), Sample(10, 50, 82, 225981, 244804),
                       Sample(10, 55, 82, 231921, 250996), Sample(10, 55, 82, 232581, 251684),
                       Sample(11, 0, 82, 238521, 257876), Sample(11, 0, 82, 239181, 258564),
                       Sample(11, 5, 82, 245146, 264662), Sample(11, 5, 82, 245812, 265328),
                       Sample(11, 10, 82, 251854, 271370), Sample(11, 10, 82, 252532, 272048),
                       Sample(11, 15, 82, 258634, 278150), Sample(11, 15, 82, 259312, 278828),
                       Sample(11, 20, 82, 265414, 284930), Sample(11, 20, 82, 266092, 285608),
                       Sample(11, 25, 82, 272182, 291698), Sample(11, 25, 82, 272848, 292364),
                       Sample(11, 30, 82, 278810, 298480), Sample(11, 30, 82, 279470, 299168),
                       Sample(11, 35, 82, 285410, 305360), Sample(11, 35, 82, 286070, 306048),
                       Sample(11, 40, 82, 292010, 312240), Sample(11, 40, 82, 292670, 312928)>>,
     acc |-> [total |-> 297290, baseline |-> 317744]]

\* 35808 ticks after a reset in RL mode (no arrival draw succeeded): vehicle 5 is one
\* tick short of the depot waypoint with a battery between 25% and 30%
DepotArrivalScenario ==
    [name |-> "rlDepot", mode |-> "rl", k |-> 35808, platooned |-> TRUE,
     vehicles |->
        Fleet(<<Veh(0, 1518, 4491, 1420900, 5469443, "moving", 28, 0, 8, 1, FALSE, "CRUISE", 0, 0),
                Veh(1, 2667, 4445, 1425499, 4972529, "moving", 28, 0, 8, 1, FALSE, "CRUISE", 0, 0),
                Veh(2, 4191, 3897, 1435626, 4473388, "moving", 40, 0, 8, 1, FALSE, "CRUISE", 0, 0),
                Veh(3, 6228, 2252, 1451934, 3977683, "moving", 28, 0, 8, 1, FALSE, "CRUISE", 0, 0),
                Veh(4, 1200, 2800, 1496339, 3484058, "moving", 40, 0, 8, 1, FALSE, "CRUISE", 0, 0),
                Veh(5, 1200, 2800, 1499989, 2979825, "moving", 40, 0, 8, 1, FALSE, "CRUISE", 0, 0)>>),
     stations |-> initialStations,
     metrics |->
        [totalEnergy |-> 24143074, totalEnergyBaseline |-> 25513758, totalServed |-> 0,
         totalDist |-> 8640287, platoonDist |-> 3639055, emptyDist |-> 8640287, totalWaitTime |-> 0,
         gridInfo |-> [solar |-> 0, load |-> 8541, price |-> 65, status |-> "PEAK"]],
     logs |-> <<Log(36760, 36761, "SYSTEM", "congestionStable", 0 - 1), Log(36759, 36760, "SYSTEM", "congestionStable", 0 - 1),
               Log(36750, 36751, "SYSTEM", "congestionStable", 0 - 1), Log(36749, 36750, "SYSTEM", "congestionStable", 0 - 1),
               Log(36740, 36741, "SYSTEM", "congestionStable", 0 - 1), Log(36739, 36740, "SYSTEM", "congestionStable", 0 - 1),
               Log(36730, 36731, "SYSTEM", "congestionStable", 0 - 1), Log(36729, 36730, "SYSTEM", "congestionStable", 0 - 1),
               Log(36720, 36721, "SYSTEM", "congestionStable", 0 - 1), Log(36719, 36720, "SYSTEM", "congestionStable", 0 - 1)>>,
     statsHistory |-> <<Sample(16, 45, 42, 24009174, 25375000), Sample(16, 45, 42, 24009844, 25375754),
                       Sample(16, 50, 42, 24015874, 25382540), Sample(16, 50, 42, 24016544, 25383294),
                       Sample(16, 55, 42, 24022574, 25390080), Sample(16, 55, 42, 24023244, 25390834),
                       Sample(17, 0, 42, 24029226, 25397488), Sample(17, 0, 42, 24029888, 25398220),
                       Sample(17, 5, 42, 24035901, 25404632), Sample(17, 5, 42, 24036573, 25405332),
                       Sample(17, 10, 42, 24042621, 25411632), Sample(17, 10, 42, 24043293, 25412332),
                       Sample(17, 15, 42, 24049365, 25418656), Sample(17, 15, 42, 24050049, 25419368),
                       Sample(17, 20, 42, 24056205, 25425776), Sample(17, 20, 42, 24056889, 25426488),
                       Sample(17, 25, 42, 24063045, 25432896), Sample(17, 25, 42, 24063729, 25433608),
                       Sample(17, 30, 42, 24069885, 25440016), Sample(17, 30, 42, 24070569, 25440728),
                       Sample(17, 35, 42, 24076725, 25447136), Sample(17, 35, 42, 24077409, 25447848),
                       Sample(17, 40, 42, 24083566, 25454250), Sample(17, 40, 42, 24084256, 25454940),
                       Sample(17, 45, 42, 24090466, 25461150), Sample(17, 45, 42, 24091156, 25461840),
                       Sample(17, 50, 42, 24097354, 25468038), Sample(17, 50, 42, 24098032, 25468716),
                       Sample(17, 55, 42, 24104134, 25474818), Sample(17, 55, 42, 24104812, 25475496),
                       Sample(18, 0, 42, 24110914, 25481598), Sample(18, 0, 42, 24111592, 25482276),
                       Sample(18, 5, 42, 24117694, 25488378), Sample(18, 5, 42, 24118372, 25489056),
                       Sample(18, 10, 42, 24124426, 25495110), Sample(18, 10, 42, 24125092, 25495776),
                       Sample(18, 15, 42, 24131086, 25501770), Sample(18, 15, 42, 24131752, 25502436),
                       Sample(18, 20, 42, 24137746, 25508430), Sample(18, 20, 42, 24138412, 25509096)>>,
     acc |-> [total |-> 24143074, baseline |-> 25513758]]

\* 82 ticks later: vehicle 5 is charging, one tick short of the charge target
ChargedScenario ==
    [name |-> "rlCharged", mode |-> "rl", k |-> 35890, platooned |-> TRUE,
     vehicles |->
        Fleet(<<Veh(0, 2092, 4468, 1423196, 5460833, "moving", 28, 0, 8, 1, FALSE, "CRUISE", 0, 0),
                Veh(1, 3241, 4422, 1427795, 4963919, "moving", 28, 0, 8, 1, FALSE, "CRUISE", 0, 0),
                Veh(2, 4420, 3602, 1438906, 4463794, "moving", 40, 0, 8, 1, FALSE, "CRUISE", 0, 0),
                Veh(3, 6504, 1953, 1454230, 3969073, "moving", 28, 0, 8, 1, FALSE, "CRUISE", 0, 0),
                Veh(4, 1200, 2800, 1499619, 3474464, "moving", 40, 0, 8, 1, FALSE, "CRUISE", 0, 0),
                Veh(5, 1200, 2800, 1500029, 9459708, "charging", 0, 0, 8, -50, FALSE, "CHARGING", 0, 0)>>),
     stations |-> initialStations,
     metrics |->
        [totalEnergy |-> 24188209, totalEnergyBaseline |-> 25558893, totalServed |-> 0,
         totalDist |-> 8653775, platoonDist |-> 3639055, emptyDist |-> 8653775, totalWaitTime |-> 0,
         gridInfo |-> [solar |-> 0, load |-> 8460, price |-> 65, status |-> "PEAK"]],
     logs |-> <<Log(36849, 36850, "SYSTEM", "congestionStable", 0 - 1), Log(36840, 36841, "SYSTEM", "congestionStable", 0 - 1),
               Log(36839, 36840, "SYSTEM", "congestionStable", 0 - 1), Log(36830, 36831, "SYSTEM", "congestionStable", 0 - 1),
               Log(36829, 36830, "SYSTEM", "congestionStable", 0 - 1), Log(36820, 36821, "SYSTEM", "congestionStable", 0 - 1),
               Log(36819, 36820, "SYSTEM", "congestionStable", 0 - 1), Log(36810, 36811, "SYSTEM", "congestionStable", 0 - 1),
               Log(36809, 36810, "SYSTEM", "congestionStable", 0 - 1), Log(36800, 36801, "SYSTEM", "congestionStable", 0 - 1)>>,
     statsHistory |-> <<Sample(17, 25, 42, 24063729, 25433608), Sample(17, 30, 42, 24069885, 25440016),
                       Sample(17, 30, 42, 24070569, 25440728), Sample(17, 35, 42, 24076725, 25447136),
                       Sample(17, 35, 42, 24077409, 25447848), Sample(17, 40, 42, 24083566, 25454250),
                       Sample(17, 40, 42, 24084256, 25454940), Sample(17, 45, 42, 24090466, 25461150),
                       Sample(17, 45, 42, 24091156, 25461840), Sample(17, 50, 42, 24097354, 25468038),
                       Sample(17, 50, 42, 24098032, 25468716), Sample(17, 55, 42, 24104134, 25474818),
                       Sample(17, 55, 42, 24104812, 25475496), Sample(18, 0, 42, 24110914, 25481598),
                       Sample(18, 0, 42, 24111592, 25482276), Sample(18, 5, 42, 24117694, 25488378),
                       Sample(18, 5, 42, 24118372, 25489056), Sample(18, 10, 42, 24124426, 25495110),
                       Sample(18, 10, 42, 24125092, 25495776), Sample(18, 15, 42, 24131086, 25501770),
                       Sample(18, 15, 42, 24131752, 25502436), Sample(18, 20, 42, 24137746, 25508430),
                       Sample(18, 20, 42, 24138412, 25509096), Sample(18, 25, 42, 24144289, 25514973),
                       Sample(18, 25, 43, 24144838, 25515522), Sample(18, 30, 44, 24149779, 25520463),
                       Sample(18, 30, 44, 24150328, 25521012), Sample(18, 35, 45, 24155269, 25525953),
                       Sample(18, 35, 45, 24155818, 25526502), Sample(18, 40, 46, 24160759, 25531443),
                       Sample(18, 40, 46, 24161308, 25531992), Sample(18, 45, 48, 24166249, 25536933),
                       Sample(18, 45, 48, 24166798, 25537482), Sample(18, 50, 49, 24171739, 25542423),
                       Sample(18, 50, 49, 24172288, 25542972), Sample(18, 55, 50, 24177229, 25547913),
                       Sample(18, 55, 50, 24177778, 25548462), Sample(19, 0, 52, 24182719, 25553403),
                       Sample(19, 0, 52, 24183268, 25553952), Sample(19, 5, 53, 24188209, 25558893)>>,
     acc |-> [total |-> 24188209, baseline |-> 25558893]]

\* 61535 ticks after a reset, run in baseline mode (no arrival draw succeeded), the mode
\* then switched to RL: vehicle 5 has an empty battery, vehicle 4 is one tick short of
\* the depot waypoint with a battery below 25%
DrainedScenario ==
    [name |-> "drained", mode |-> "rl", k |-> 61535, platooned |-> FALSE,
     vehicles |->
        Fleet(<<Veh(0, 6778, 905, 2264252, 2497553, "moving", 40, 0, 8, 1, FALSE, "BASELINE", 0, 0),
                Veh(1, 6089, 506, 2270252, 1997553, "moving", 40, 0, 8, 1, FALSE, "BASELINE", 0, 0),
                Veh(2, 2969, 686, 2276252, 1497553, "moving", 40, 0, 8, 1, FALSE, "BASELINE", 0, 0),
                Veh(3, 1044, 1242, 2282252, 997553, "moving", 40, 0, 8, 1, FALSE, "BASELINE", 0, 0),
                Veh(4, 1198, 2785, 2289968, 495837, "moving", 40, 0, 8, 1, FALSE, "BASELINE", 0, 0),
                Veh(5, 1200, 2800, 2298536, 0, "moving", 40, 0, 8, 1, FALSE, "BASELINE", 0, 0)>>),
     stations |-> initialStations,
     metrics |->
        [totalEnergy |-> 42020682, totalEnergyBaseline |-> 42020682, totalServed |-> 0,
         totalDist |-> 13591512, platoonDist |-> 0, emptyDist |-> 13591512, totalWaitTime |-> 0,
         gridInfo |-> [solar |-> 31, load |-> 5546, price |-> 30, status |-> "NORMAL"]],
     logs |-> <<Log(62490, 62491, "SYSTEM", "congestionStable", 0 - 1), Log(62489, 62490, "SYSTEM", "congestionStable", 0 - 1),
               Log(62480, 62481, "SYSTEM", "congestionStable", 0 - 1), Log(62479, 62480, "SYSTEM", "congestionStable", 0 - 1),
               Log(62470, 62471, "SYSTEM", "congestionStable", 0 - 1), Log(62469, 62470, "SYSTEM", "congestionStable", 0 - 1),
               Log(62460, 62461, "SYSTEM", "congestionStable", 0 - 1), Log(62459, 62460, "SYSTEM", "congestionStable", 0 - 1),
               Log(62450, 62451, "SYSTEM", "congestionStable", 0 - 1), Log(62449, 62450, "SYSTEM", "congestionStable", 0 - 1)>>,
     statsHistory |-> <<Sample(15, 10, 13, 41884860, 41884860), Sample(15, 10, 13, 41885550, 41885550),
                       Sample(15, 15, 13, 41891760, 41891760), Sample(15, 15, 13, 41892450, 41892450),
                       Sample(15, 20, 13, 41898660, 41898660), Sample(15, 20, 13, 41899350, 41899350),
                       Sample(15, 25, 13, 41905560, 41905560), Sample(15, 25, 13, 41906250, 41906250),
                       Sample(15, 30, 13, 41912460, 41912460), Sample(15, 30, 13, 41913150, 41913150),
                       Sample(15, 35, 13, 41919360, 41919360), Sample(15, 35, 13, 41920050, 41920050),
                       Sample(15, 40, 13, 41926260, 41926260), Sample(15, 40, 13, 41926950, 41926950),
                       Sample(15, 45, 13, 41933160, 41933160), Sample(15, 45, 13, 41933850, 41933850),
                       Sample(15, 50, 13, 41940060, 41940060), Sample(15, 50, 13, 41940750, 41940750),
                       Sample(15, 55, 13, 41946972, 41946972), Sample(15, 55, 13, 41947674, 41947674),
                       Sample(16, 0, 13, 41953992, 41953992), Sample(16, 0, 13, 41954694, 41954694),
                       Sample(16, 5, 13, 41961012, 41961012), Sample(16, 5, 13, 41961714, 41961714),
                       Sample(16, 10, 13, 41968032, 41968032), Sample(16, 10, 13, 41968734, 41968734),
                       Sample(16, 15, 13, 41975052, 41975052), Sample(16, 15, 13, 41975754, 41975754),
                       Sample(16, 20, 13, 41982072, 41982072), Sample(16, 20, 13, 41982774, 41982774),
                       Sample(16, 25, 13, 41989092, 41989092), Sample(16, 25, 13, 41989794, 41989794),
                       Sample(16, 30, 13, 41996112, 41996112), Sample(16, 30, 13, 41996814, 41996814),
                       Sample(16, 35, 13, 42003132, 42003132), Sample(16, 35, 13, 42003834, 42003834),
                       Sample(16, 40, 12, 42010152, 42010152), Sample(16, 40, 12, 42010854, 42010854),
                       Sample(16, 45, 12, 42017172, 42017172), Sample(16, 45, 12, 42017874, 42017874)>>,
     acc |-> [total |-> 42020682, baseline |-> 42020682]]

\* 119771 ticks after a reset, the first 250 in baseline mode and the rest in RL mode;
\* the only arrival draws that succeeded were those of tick 119770, at juguang and at the
\* airport: vehicles 0 and 3 are both one tick short of the juguang waypoint
CoArrivalScenario ==
    [name |-> "coArrival", mode |-> "rl", k |-> 119771, platooned |-> TRUE,
     vehicles |->
        Fleet(<<Veh(0, 1596, 3592, 5109951, 9463607, "moving", 50, 0, 3, 1, TRUE, "CRUISE", 0, 0),
                Veh(1, 1493, 3387, 5207398, 9002931, "moving", 50, 0, 3, 1, TRUE, "CRUISE", 0, 0),
                Veh(2, 1544, 3489, 5208666, 8501429, "moving", 50, 0, 3, 1, TRUE, "CRUISE", 0, 0),
                Veh(3, 1596, 3592, 5209955, 7839187, "moving", 50, 0, 3, 1, TRUE, "CRUISE", 0, 0),
                Veh(4, 1516, 3850, 5212834, 7331850, "moving", 50, 0, 3, 1, TRUE, "CRUISE", 0, 0),
                Veh(5, 1437, 4086, 5215451, 6825944, "moving", 50, 0, 3, 1, TRUE, "CRUISE", 0, 0)>>),
     stations |-> [initialStations EXCEPT !["juguang"] = [queue |-> 1, totalServed |-> 0], !["airport"] = [queue |-> 1, totalServed |-> 0]],
     metrics |->
        [totalEnergy |-> 79735052, totalEnergyBaseline |-> 88404202, totalServed |-> 0,
         totalDist |-> 31074255, platoonDist |-> 23115375, emptyDist |-> 31074255, totalWaitTime |-> 0,
         gridInfo |-> [solar |-> 0, load |-> 4314, price |-> 30, status |-> "NORMAL"]],
     logs |-> <<Log(120730, 120731, "SYSTEM", "congestionStable", 0 - 1), Log(120729, 120730, "SYSTEM", "congestionStable", 0 - 1),
               Log(120720, 120721, "SYSTEM", "congestionStable", 0 - 1), Log(120719, 120720, "SYSTEM", "congestionStable", 0 - 1),
               Log(120710, 120711, "SYSTEM", "congestionStable", 0 - 1), Log(120709, 120710, "SYSTEM", "congestionStable", 0 - 1),
               Log(120700, 120701, "SYSTEM", "congestionStable", 0 - 1), Log(120699, 120700, "SYSTEM", "congestionStable", 0 - 1),
               Log(120690, 120691, "SYSTEM", "congestionStable", 0 - 1), Log(120689, 120690, "SYSTEM", "congestionStable", 0 - 1)>>,
     statsHistory |-> <<Sample(20, 30, 82, 79606700, 88251784), Sample(20, 30, 82, 79607372, 88252582),
                       Sample(20, 35, 82, 79613420, 88259764), Sample(20, 35, 82, 79614092, 88260562),
                       Sample(20, 40, 82, 79620140, 88267744), Sample(20, 40, 82, 79620812, 88268542),
                       Sample(20, 45, 82, 79626860, 88275724), Sample(20, 45, 82, 79627532, 88276522),
                       Sample(20, 50, 82, 79633580, 88283704), Sample(20, 50, 82, 79634252, 88284502),
                       Sample(20, 55, 82, 79640300, 88291684), Sample(20, 55, 82, 79640972, 88292482),
                       Sample(21, 0, 82, 79647020, 88299664), Sample(21, 0, 82, 79647692, 88300462),
                       Sample(21, 5, 82, 79653740, 88307644), Sample(21, 5, 82, 79654412, 88308442),
                       Sample(21, 10, 82, 79660460, 88315624), Sample(21, 10, 82, 79661132, 88316422),
                       Sample(21, 15, 82, 79667180, 88323604), Sample(21, 15, 82, 79667852, 88324402),
                       Sample(21, 20, 82, 79673900, 88331584), Sample(21, 20, 82, 79674572, 88332382),
                       Sample(21, 25, 82, 79680620, 88339564), Sample(21, 25, 82, 79681292, 88340362),
                       Sample(21, 30, 82, 79687340, 88347544), Sample(21, 30, 82, 79688012, 88348342),
                       Sample(21, 35, 82, 79694060, 88355524), Sample(21, 35, 82, 79694732, 88356322),
                       Sample(21, 40, 82, 79700780, 88363504), Sample(21, 40, 82, 79701452, 88364302),
                       Sample(21, 45, 82, 79707500, 88371484), Sample(21, 45, 82, 79708172, 88372282),
                       Sample(21, 50, 82, 79714220, 88379464), Sample(21, 50, 82, 79714892, 88380262),
                       Sample(21, 55, 82, 79720940, 88387444), Sample(21, 55, 82, 79721612, 88388242),
                       Sample(22, 0, 82, 79727660, 88395424), Sample(22, 0, 82, 79728332, 88396222),
                       Sample(22, 5, 82, 79734380, 88403404), Sample(22, 5, 82, 79735052, 88404202)>>,
     acc |-> [total |-> 79735052, baseline |-> 88404202]]

\* 499 ticks after a reset in RL mode; the arrival draw succeeded in every tick, at the
\* airport, and in the last 10 ticks also at taiwu; no alighting draw removed a rider: the
\* airport queue is at the ceiling and vehicle 5, full, is one tick short of the taiwu waypoint
CeilingScenario ==
    [name |-> "ceiling", mode |-> "rl", k |-> 499, platooned |-> TRUE,
     vehicles |->
        Fleet(<<Veh(0, 1925, 4474, 22530, 9444522, "moving", 28, 0, 8, 1, FALSE, "CRUISE", 0, 0),
                Veh(1, 2974, 4433, 26727, 8945730, "moving", 28, 0, 8, 1, FALSE, "CRUISE", 0, 0),
                Veh(2, 3865, 4316, 30979, 8446491, "moving", 50, 0, 3, 1, TRUE, "CRUISE", 0, 0),
                Veh(3, 4200, 3885, 35768, 7946341, "moving", 50, 0, 3, 1, TRUE, "CRUISE", 0, 0),
                Veh(4, 4717, 3355, 41490, 7443809, "moving", 40, 20, 8, 1, FALSE, "CRUISE", 20, 0),
                Veh(5, 5988, 2508, 49960, 6938629, "moving", 40, 20, 8, 1, FALSE, "CRUISE", 20, 0)>>),
     stations |-> [initialStations EXCEPT !["airport"] = [queue |-> 30, totalServed |-> 40], !["taiwu"] = [queue |-> 10, totalServed |-> 0]],
     metrics |->
        [totalEnergy |-> 334478, totalEnergyBaseline |-> 356860, totalServed |-> 40,
         totalDist |-> 117454, platoonDist |-> 59150, emptyDist |-> 106004, totalWaitTime |-> 14130,
         gridInfo |-> [solar |-> 99, load |-> 2000, price |-> 18, status |-> "GREEN"]],
     logs |-> <<Log(1450, 1451, "SYSTEM", "congestionSummary", 0 - 1), Log(1449, 1450, "SYSTEM", "congestionSummary", 0 - 1),
               Log(1440, 1441, "SYSTEM", "congestionSummary", 0 - 1), Log(1439, 1440, "SYSTEM", "congestionSummary", 0 - 1),
               Log(1430, 1431, "SYSTEM", "congestionSummary", 0 - 1), Log(1429, 1430, "SYSTEM", "congestionSummary", 0 - 1),
               Log(1420, 1421, "SYSTEM", "congestionSummary", 0 - 1), Log(1419, 1420, "SYSTEM", "congestionSummary", 0 - 1),
               Log(1410, 1411, "SYSTEM", "congestionSummary", 0 - 1), Log(1409, 1410, "SYSTEM", "congestionSummary", 0 - 1)>>,
     statsHistory |-> <<Sample(10, 30, 82, 199521, 217196), Sample(10, 30, 82, 200193, 217896),
                       Sample(10, 35, 82, 206241, 224196), Sample(10, 35, 82, 206913, 224896),
                       Sample(10, 40, 82, 212961, 231196), Sample(10, 40, 82, 213633, 231896),
                       Sample(10, 45, 82, 219681, 238196), Sample(10, 45, 82, 220353, 238896),
                       Sample(10, 50, 82, 226401, 245196), Sample(10, 50, 82, 227073, 245896),
                       Sample(10, 55, 82, 233121, 252196), Sample(10, 55, 82, 233793, 252896),
                       Sample(11, 0, 82, 239841, 259196), Sample(11, 0, 82, 240513, 259896),
                       Sample(11, 5, 82, 246586, 266102), Sample(11, 5, 82, 247264, 266780),
                       Sample(11, 10, 82, 253414, 272930), Sample(11, 10, 82, 254104, 273620),
                       Sample(11, 15, 82, 260314, 279830), Sample(11, 15, 82, 261004, 280520),
                       Sample(11, 20, 82, 267214, 286730), Sample(11, 20, 82, 267904, 287420),
                       Sample(11, 25, 82, 274102, 293618), Sample(11, 25, 82, 274780, 294296),
                       Sample(11, 30, 82, 280850, 300520), Sample(11, 30, 82, 281522, 301220),
                       Sample(11, 35, 82, 287570, 307520), Sample(11, 35, 82, 288242, 308220),
                       Sample(11, 40, 82, 294290, 314520), Sample(11, 40, 82, 294962, 315220),
                       Sample(11, 45, 82, 301010, 321520), Sample(11, 45, 82, 301682, 322220),
                       Sample(11, 50, 82, 307690, 328648), Sample(11, 50, 82, 308357, 329364),
                       Sample(11, 55, 82, 314490, 335794), Sample(11, 55, 82, 315174, 336506),
                       Sample(12, 0, 82, 321330, 342914), Sample(12, 0, 82, 322022, 343648),
                       Sample(12, 5, 82, 328250, 350254), Sample(12, 5, 82, 328942, 350988)>>,
     acc |-> [total |-> 334478, baseline |-> 356860]]

\* 40381 ticks after a reset in RL mode (no arrival draw succeeded): vehicle 4 reached the
\* depot in a platoon on the previous tick and is charging
PlatoonChargeScenario ==
    [name |-> "platoonCharge", mode |-> "rl", k |-> 40381, platooned |-> TRUE,
     vehicles |->
        Fleet(<<Veh(0, 1283, 2966, 1602134, 4956035, "moving", 50, 0, 3, 1, TRUE, "CRUISE", 0, 0),
                Veh(1, 1435, 3270, 1605925, 4457409, "moving", 50, 0, 3, 1, TRUE, "CRUISE", 0, 0),
                Veh(2, 1489, 3931, 1613735, 3954848, "moving", 50, 0, 3, 1, TRUE, "CRUISE", 0, 0),
                Veh(3, 2071, 4469, 1623114, 3456842, "moving", 28, 0, 8, 1, FALSE, "CRUISE", 0, 0),
                Veh(4, 1200, 2800, 1700012, 2977181, "charging", 50, 0, 3, 1, TRUE, "CRUISE", 0, 0),
                Veh(5, 1224, 2849, 1700664, 9042668, "moving", 50, 0, 3, 1, TRUE, "CRUISE", 0, 0)>>),
     stations |-> initialStations,
     metrics |->
        [totalEnergy |-> 27215017, totalEnergyBaseline |-> 28783416, totalServed |-> 0,
         totalDist |-> 9755584, platoonDist |-> 4162000, emptyDist |-> 9755584, totalWaitTime |-> 0,
         gridInfo |-> [solar |-> 60, load |-> 2000, price |-> 18, status |-> "GREEN"]],
     logs |-> <<Log(41340, 41341, "SYSTEM", "congestionStable", 0 - 1), Log(41340, 41341, "AI", "returnToCharge", 4),
               Log(41339, 41340, "SYSTEM", "congestionStable", 0 - 1), Log(41330, 41331, "SYSTEM", "congestionStable", 0 - 1),
               Log(41329, 41330, "SYSTEM", "congestionStable", 0 - 1), Log(41320, 41321, "SYSTEM", "congestionStable", 0 - 1),
               Log(41319, 41320, "SYSTEM", "congestionStable", 0 - 1), Log(41310, 41311, "SYSTEM", "congestionStable", 0 - 1),
               Log(41309, 41310, "SYSTEM", "congestionStable", 0 - 1), Log(41300, 41301, "SYSTEM", "congestionStable", 0 - 1)>>,
     statsHistory |-> <<Sample(6, 55, 48, 27086322, 28637690), Sample(6, 55, 48, 27086999, 28638472),
                       Sample(7, 0, 48, 27093092, 28645510), Sample(7, 0, 48, 27093769, 28646292),
                       Sample(7, 5, 48, 27099862, 28653330), Sample(7, 5, 48, 27100539, 28654112),
                       Sample(7, 10, 48, 27106632, 28661150), Sample(7, 10, 48, 27107309, 28661932),
                       Sample(7, 15, 48, 27113402, 28668970), Sample(7, 15, 48, 27114079, 28669752),
                       Sample(7, 20, 48, 27120172, 28676790), Sample(7, 20, 48, 27120849, 28677572),
                       Sample(7, 25, 48, 27126942, 28684610), Sample(7, 25, 48, 27127619, 28685392),
                       Sample(7, 30, 48, 27133892, 28691854), Sample(7, 30, 48, 27134594, 28692556),
                       Sample(7, 35, 48, 27140912, 28698874), Sample(7, 35, 48, 27141602, 28699564),
                       Sample(7, 40, 48, 27147707, 28706110), Sample(7, 40, 48, 27148377, 28706864),
                       Sample(7, 45, 48, 27154407, 28713650), Sample(7, 45, 48, 27155077, 28714404),
                       Sample(7, 50, 48, 27161107, 28721190), Sample(7, 50, 48, 27161777, 28721944),
                       Sample(7, 55, 48, 27167802, 28728746), Sample(7, 55, 48, 27168467, 28729516),
                       Sample(8, 0, 48, 27174452, 28736446), Sample(8, 0, 48, 27175117, 28737216),
                       Sample(8, 5, 48, 27181102, 28744146), Sample(8, 5, 48, 27181767, 28744916),
                       Sample(8, 10, 48, 27187752, 28751846), Sample(8, 10, 48, 27188417, 28752616),
                       Sample(8, 15, 48, 27194402, 28759546), Sample(8, 15, 48, 27195067, 28760316),
                       Sample(8, 20, 48, 27201052, 28767246), Sample(8, 20, 48, 27201717, 28768016),
                       Sample(8, 25, 48, 27207702, 28774946), Sample(8, 25, 48, 27208367, 28775716),
                       Sample(8, 30, 48, 27214352, 28782646), Sample(8, 30, 48, 27215017, 28783416)>>,
     acc |-> [total |-> 27215017, baseline |-> 28783416]]

\* 35808 ticks after a reset in RL mode; the arrival draws succeeded on ticks 35318 to
\* 35326, at guningtou and at the airport: vehicle 5 took the riders waiting at guningtou
\* and is one tick short of the depot waypoint with a battery between 25% and 30%
RidersToDepotScenario ==
    [name |-> "ridersToDepot", mode |-> "rl", k |-> 35808, platooned |-> TRUE,
     vehicles |->
        Fleet(<<Veh(0, 1518, 4491, 1420900, 5469443, "moving", 28, 0, 8, 1, FALSE, "CRUISE", 0, 0),
                Veh(1, 2667, 4445, 1425499, 4972529, "moving", 28, 0, 8, 1, FALSE, "CRUISE", 0, 0),
                Veh(2, 4191, 3897, 1435626, 4473388, "moving", 40, 0, 8, 1, FALSE, "CRUISE", 0, 0),
                Veh(3, 6228, 2252, 1451934, 3976088, "moving", 28, 9, 8, 1, FALSE, "CRUISE", 0, 0),
                Veh(4, 1200, 2800, 1496339, 3484058, "moving", 40, 0, 8, 1, FALSE, "CRUISE", 0, 0),
                Veh(5, 1200, 2800, 1499989, 2977425, "moving", 40, 9, 8, 1, FALSE, "CRUISE", 0, 0)>>),
     stations |-> [initialStations EXCEPT !["airport"] = [queue |-> 0, totalServed |-> 9],
                                          !["guningtou"] = [queue |-> 0, totalServed |-> 9]],
     metrics |->
        [totalEnergy |-> 24147069, totalEnergyBaseline |-> 25517828, totalServed |-> 18,
         totalDist |-> 8640287, platoonDist |-> 3639055, emptyDist |-> 8608405, totalWaitTime |-> 1539,
         gridInfo |-> [solar |-> 0, load |-> 8541, price |-> 65, status |-> "PEAK"]],
     logs |-> <<Log(36760, 36761, "SYSTEM", "congestionStable", 0 - 1), Log(36759, 36760, "SYSTEM", "congestionStable", 0 - 1),
               Log(36750, 36751, "SYSTEM", "congestionStable", 0 - 1), Log(36749, 36750, "SYSTEM", "congestionStable", 0 - 1),
               Log(36740, 36741, "SYSTEM", "congestionStable", 0 - 1), Log(36739, 36740, "SYSTEM", "congestionStable", 0 - 1),
               Log(36730, 36731, "SYSTEM", "congestionStable", 0 - 1), Log(36729, 36730, "SYSTEM", "congestionStable", 0 - 1),
               Log(36720, 36721, "SYSTEM", "congestionStable", 0 - 1), Log(36719, 36720, "SYSTEM", "congestionStable", 0 - 1)>>,
     statsHistory |-> <<Sample(16, 45, 42, 24011189, 25377055), Sample(16, 45, 42, 24011869, 25377820),
                       Sample(16, 50, 42, 24017989, 25384705), Sample(16, 50, 42, 24018669, 25385470),
                       Sample(16, 55, 42, 24024789, 25392355), Sample(16, 55, 42, 24025469, 25393120),
                       Sample(17, 0, 42, 24031541, 25399873), Sample(17, 0, 42, 24032213, 25400616),
                       Sample(17, 5, 42, 24038316, 25407122), Sample(17, 5, 42, 24038998, 25407832),
                       Sample(17, 10, 42, 24045136, 25414222), Sample(17, 10, 42, 24045818, 25414932),
                       Sample(17, 15, 42, 24051980, 25421346), Sample(17, 15, 42, 24052674, 25422068),
                       Sample(17, 20, 42, 24058920, 25428566), Sample(17, 20, 42, 24059614, 25429288),
                       Sample(17, 25, 42, 24065860, 25435786), Sample(17, 25, 42, 24066554, 25436508),
                       Sample(17, 30, 42, 24072800, 25443006), Sample(17, 30, 42, 24073494, 25443728),
                       Sample(17, 35, 42, 24079740, 25450226), Sample(17, 35, 42, 24080434, 25450948),
                       Sample(17, 40, 42, 24086681, 25457440), Sample(17, 40, 42, 24087381, 25458140),
                       Sample(17, 45, 42, 24093681, 25464440), Sample(17, 45, 42, 24094381, 25465140),
                       Sample(17, 50, 42, 24100669, 25471428), Sample(17, 50, 42, 24101357, 25472116),
                       Sample(17, 55, 42, 24107549, 25478308), Sample(17, 55, 42, 24108237, 25478996),
                       Sample(18, 0, 42, 24114429, 25485188), Sample(18, 0, 42, 24115117, 25485876),
                       Sample(18, 5, 42, 24121309, 25492068), Sample(18, 5, 42, 24121997, 25492756),
                       Sample(18, 10, 42, 24128141, 25498900), Sample(18, 10, 42, 24128817, 25499576),
                       Sample(18, 15, 42, 24134901, 25505660), Sample(18, 15, 42, 24135577, 25506336),
                       Sample(18, 20, 42, 24141661, 25512420), Sample(18, 20, 42, 24142337, 25513096)>>,
     acc |-> [total |-> 24147069, baseline |-> 25517828]]

\* 110597 ticks after a reset in RL mode (no arrival draw succeeded): vehicle 2 is charging
\* at the depot and vehicle 1, alone on the road, comes within platoon distance of it
PartnerChargingScenario ==
    [name |-> "partnerCharging", mode |-> "rl", k |-> 110597, platooned |-> TRUE,
     vehicles |->
        Fleet(<<Veh(0, 1200, 2800, 4695850, 3905245, "moving", 40, 0, 8, 1, FALSE, "CRUISE", 0, 0),
                Veh(1, 1218, 2836, 4700496, 3246850, "moving", 40, 0, 8, 1, FALSE, "CRUISE", 0, 0),
                Veh(2, 1199, 2793, 4790016, 7428149, "charging", 0, 0, 3, -50, TRUE, "CHARGING", 0, 0),
                Veh(3, 6402, 2063, 4753386, 8832951, "moving", 28, 0, 8, 1, FALSE, "CRUISE", 0, 0),
                Veh(4, 1200, 2800, 4791813, 8336586, "moving", 40, 0, 8, 1, FALSE, "CRUISE", 0, 0),
                Veh(5, 1200, 2800, 4794557, 7831690, "moving", 40, 0, 8, 1, FALSE, "CRUISE", 0, 0)>>),
     stations |-> initialStations,
     metrics |->
        [totalEnergy |-> 73758529, totalEnergyBaseline |-> 81252512, totalServed |-> 0,
         totalDist |-> 28436118, platoonDist |-> 20037390, emptyDist |-> 28436118, totalWaitTime |-> 0,
         gridInfo |-> [solar |-> 9, load |-> 7496, price |-> 30, status |-> "NORMAL"]],
     logs |-> <<Log(111550, 111551, "SYSTEM", "congestionStable", 0 - 1), Log(111549, 111550, "SYSTEM", "congestionStable", 0 - 1),
               Log(111540, 111541, "SYSTEM", "congestionStable", 0 - 1), Log(111539, 111540, "SYSTEM", "congestionStable", 0 - 1),
               Log(111530, 111531, "SYSTEM", "congestionStable", 0 - 1), Log(111529, 111530, "SYSTEM", "congestionStable", 0 - 1),
               Log(111520, 111521, "SYSTEM", "congestionStable", 0 - 1), Log(111519, 111520, "SYSTEM", "congestionStable", 0 - 1),
               Log(111510, 111511, "SYSTEM", "congestionStable", 0 - 1), Log(111509, 111510, "SYSTEM", "congestionStable", 0 - 1)>>,
     statsHistory |-> <<Sample(16, 0, 59, 73631857, 81110594), Sample(16, 0, 59, 73632539, 81111360),
                       Sample(16, 5, 59, 73638637, 81118382), Sample(16, 5, 59, 73639314, 81119164),
                       Sample(16, 10, 59, 73645407, 81126202), Sample(16, 10, 59, 73646084, 81126984),
                       Sample(16, 15, 59, 73652177, 81134022), Sample(16, 15, 59, 73652854, 81134804),
                       Sample(16, 20, 59, 73658947, 81141842), Sample(16, 20, 59, 73659624, 81142624),
                       Sample(16, 25, 59, 73665717, 81149662), Sample(16, 25, 59, 73666394, 81150444),
                       Sample(16, 30, 59, 73672487, 81157482), Sample(16, 30, 59, 73673164, 81158264),
                       Sample(16, 35, 59, 73679257, 81165302), Sample(16, 35, 59, 73679934, 81166084),
                       Sample(16, 40, 59, 73685991, 81173086), Sample(16, 40, 59, 73686656, 81173856),
                       Sample(16, 45, 59, 73692641, 81180786), Sample(16, 45, 59, 73693306, 81181556),
                       Sample(16, 50, 59, 73699291, 81188486), Sample(16, 50, 59, 73699956, 81189256),
                       Sample(16, 55, 59, 73705941, 81196186), Sample(16, 55, 59, 73706606, 81196956),
                       Sample(17, 0, 59, 73712591, 81203886), Sample(17, 0, 59, 73713256, 81204656),
                       Sample(17, 5, 59, 73719241, 81211586), Sample(17, 5, 59, 73719906, 81212356),
                       Sample(17, 10, 59, 73725891, 81219286), Sample(17, 10, 59, 73726556, 81220056),
                       Sample(17, 15, 60, 73731598, 81225581), Sample(17, 15, 60, 73732171, 81226154),
                       Sample(17, 20, 61, 73737328, 81231311), Sample(17, 20, 61, 73737901, 81231884),
                       Sample(17, 25, 62, 73743058, 81237041), Sample(17, 25, 63, 73743631, 81237614),
                       Sample(17, 30, 64, 73748788, 81242771), Sample(17, 30, 64, 73749361, 81243344),
                       Sample(17, 35, 65, 73754518, 81248501), Sample(17, 35, 65, 73755091, 81249074)>>,
     acc |-> [total |-> 73758529, baseline |-> 81252512]]

Scenarios == {ResetScenario, PlatoonEdgeScenario, DepotArrivalScenario, ChargedScenario,
              DrainedScenario, CoArrivalScenario, CeilingScenario, PlatoonChargeScenario,
              RidersToDepotScenario, PartnerChargingScenario}

NoTick == [kind |-> "none"]

\* the component mounted under a root of kind rootKind, at the checkpoint sc of a run
InitFrom(sc, rootKind) ==
        /\ root = rootKind
        /\ state = [gameTime |-> START_TIME * TU + sc.k,
                    stations |-> sc.stations,
                    vehicles |-> sc.vehicles,
                    logs |-> ScenarioLogs(rootKind, sc.logs),
                    metrics |-> sc.metrics,
                    statsHistory |-> sc.statsHistory,
                    mode |-> sc.mode]
        /\ ref = RefOf(state)
        /\ acc = sc.acc
        /\ pending = <<>>
        /\ effectPending = FALSE
        /\ isRunning = FALSE
        /\ snapshot = [emitted |-> 0]
        /\ last = NoTick
        /\ stateTag = [f \in TagFields |-> Tag(0, sc.k)]
        /\ refTag = stateTag
        /\ snapTag = stateTag
        /\ hist = [scenario |-> sc.name, resets |-> 0, ticks |-> 0, invocations |-> sc.k,
                   ops |-> 0, platooned |-> sc.platooned, idleEmits |-> 0]

Init == \E sc \in Scenarios, rootKind \in Roots : InitFrom(sc, rootKind)

----------------------------------------------------------------------------
(* Operations *)

\* a render starts by running the passive effects still outstanding
FlushedRef == IF effectPending THEN RefOf(state) ELSE ref
FlushedRefTag == IF effectPending THEN stateTag ELSE refTag

\* setIsSystemRunning(true) in the parent: its render passes isRunningExternal and
\* the Stepper interval is created
Start ==
    /\ ~isRunning
    /\ isRunning' = TRUE
    /\ ref' = FlushedRef
    /\ refTag' = FlushedRefTag
    /\ effectPending' = FALSE
    /\ UNCHANGED <<state, acc, pending, snapshot, root, last, stateTag, snapTag, hist>>

\* setIsSystemRunning(false): the Stepper interval is cleared
Stop ==
    /\ isRunning
    /\ hist.ops < MaxControlOps
    /\ isRunning' = FALSE
    /\ ref' = FlushedRef
    /\ refTag' = FlushedRefTag
    /\ effectPending' = FALSE
    /\ hist' = [hist EXCEPT !.ops = @ + 1]
    /\ UNCHANGED <<state, acc, pending, snapshot, root, last, stateTag, snapTag>>

\* the setState calls of one updateGameLogic invocation, as one batch of updates
TickBatch(r, clock, tags) ==
    [kind |-> "tick", newTime |-> r.newTime, spawn |-> r.spawn,
     nextVehicles |-> r.nextVehicles,
     stationUpdates |-> r.stationUpdates,
     logEntries |-> [i \in 1 .. Len(r.logBuffer) |-> LogEntry(clock, r.logBuffer[i])],
     cycleServed |-> r.cycleServed, cycleDist |-> r.cycleDist,
     cyclePlatoon |-> r.cyclePlatoon, cycleEmpty |-> r.cycleEmpty,
     waitDelta |-> r.waitDelta, gridInfo |-> r.gridInfo,
     sample |-> r.sample, avgSoC |-> r.avgSoC,
     \* history: the generation and age of what the invocation read
     vTag |-> Tag(tags.vehicles.gen, tags.vehicles.n + 1),
     tTag |-> Tag(tags.gameTime.gen, tags.gameTime.n + 1)]

\* history: what an invocation read from the ref and what it computed
TickRecord(r, read, invocation) ==
    [kind |-> "tick", read |-> read, invocation |-> invocation,
     resets |-> hist.resets, spawn |-> r.spawn,
     newTime |-> r.newTime, nextVehicles |-> r.nextVehicles,
     stationUpdates |-> r.stationUpdates,
     stop |-> r.stop, boarded |-> r.boarded, energy |-> r.energy,
     energyBaseline |-> r.energyBaseline, dist |-> r.dist,
     cycleEnergy |-> r.cycleEnergy, cycleEnergyBaseline |-> r.cycleEnergyBaseline,
     cycleServed |-> r.cycleServed, logBuffer |-> r.logBuffer, sample |-> r.sample]

\* variant of StepperActive: the interval survives the stop
StepperAlwaysActive == TRUE

\* if (!isRunning) return; otherwise the 50 ms interval exists until the cleanup
StepperActive == isRunning

\* updateGameLogic() with the outcomes rnd of its Math.random() calls
Invoke(rnd) ==
    /\ \E r \in {TickResult(ref.vehicles, ref.stations, ref.mode, ref.gameTime, rnd)} :
        \E b \in {TickBatch(r, LogClock(root, ref.gameTime, r.newTime), refTag)} :
        \E accNow \in {[total |-> acc.total + r.cycleEnergy,
                        baseline |-> acc.baseline + r.cycleEnergyBaseline]} :
            /\ acc' = accNow
            /\ last' = TickRecord(r, [vehicles |-> ref.vehicles, stations |-> ref.stations,
                                      mode |-> ref.mode, gameTime |-> ref.gameTime],
                                  hist.invocations + 1)
            /\ hist' = [hist EXCEPT !.ticks = @ + 1, !.invocations = @ + 1,
                                    !.platooned = @ \/ r.cyclePlatoon > 0]
            /\ IF root = "legacy"
               THEN /\ state' = ApplyTick(state, b, accNow)
                    /\ stateTag' = TagBatch(stateTag, b)
                    /\ ref' = LegacyRef(state, ApplyTick(state, b, accNow), b)
                    /\ refTag' = LegacyRefTag(stateTag, TagBatch(stateTag, b), b)
                    /\ effectPending' = TRUE
                    /\ pending' = pending
               ELSE /\ pending' = Append(pending, b)
                    /\ UNCHANGED <<state, stateTag, ref, refTag, effectPending>>
    /\ UNCHANGED <<isRunning, snapshot, root, snapTag>>

\* one firing of the 50 ms interval: updateGameLogic()
Tick ==
    /\ StepperActive
    /\ hist.ticks < MaxTicks
    /\ \E rnd \in RandomDraws : Invoke(rnd)

\* the reset button: resetSimulation(), and the render that follows the handler
Reset ==
    /\ hist.ops < MaxControlOps
    /\ \E b \in {[kind |-> "reset", gen |-> hist.resets + 1,
                  logEntry |-> LogEntry(ref.gameTime,
                                        LogItem("SYSTEM", "initialized", 0 - 1))]} :
        /\ state' = ApplyReset(state, b)
        /\ stateTag' = TagBatch(stateTag, b)
        /\ IF root = "legacy"
           THEN /\ ref' = IF effectPending THEN RefOf(state)
                          ELSE [ref EXCEPT !.stations = initialStations]
                /\ refTag' = IF effectPending THEN stateTag
                             ELSE [refTag EXCEPT !.stations = Tag(hist.resets + 1, 0)]
                /\ effectPending' = TRUE
                /\ pending' = pending
           ELSE /\ ref' = RefOf(ApplyReset(state, b))
                /\ refTag' = TagBatch(stateTag, b)
                /\ effectPending' = FALSE
                /\ pending' = Rebase(pending, b)
    /\ acc' = [total |-> 0, baseline |-> 0]
    /\ hist' = [hist EXCEPT !.ops = @ + 1, !.resets = @ + 1, !.invocations = 0,
                            !.platooned = FALSE]
    /\ UNCHANGED <<isRunning, snapshot, root, last, snapTag>>

\* the mode buttons: setMode('baseline') / setMode('rl'), and the render that follows
SetMode(m) ==
    /\ hist.ops < MaxControlOps
    /\ m # state.mode
    /\ state' = [state EXCEPT !.mode = m]
    /\ IF root = "legacy"
       THEN /\ ref' = FlushedRef
            /\ refTag' = FlushedRefTag
            /\ effectPending' = TRUE
            /\ pending' = pending
       ELSE /\ ref' = RefOf([state EXCEPT !.mode = m])
            /\ refTag' = stateTag
            /\ effectPending' = FALSE
            /\ pending' = Rebase(pending, [kind |-> "mode", mode |-> m])
    /\ hist' = [hist EXCEPT !.ops = @ + 1]
    /\ UNCHANGED <<acc, isRunning, snapshot, root, last, stateTag, snapTag>>

\* the render of the updates a timer callback queued (concurrent root)
Commit ==
    /\ pending # <<>>
    /\ state' = Render(state, pending, acc)
    /\ stateTag' = RenderTag(stateTag, pending)
    /\ ref' = FlushedRef
    /\ refTag' = FlushedRefTag
    /\ pending' = <<>>
    /\ effectPending' = TRUE
    /\ UNCHANGED <<acc, isRunning, snapshot, root, last, snapTag, hist>>

\* the effect on [vehicles, gameTime, metrics, stations, mode, logs]
SyncRef ==
    /\ effectPending
    /\ ref' = RefOf(state)
    /\ refTag' = stateTag
    /\ effectPending' = FALSE
    /\ UNCHANGED <<state, acc, pending, isRunning, snapshot, root, last,
                   stateTag, snapTag, hist>>

\* one firing of the 1000 ms interval: onSimulationUpdate(...); under a legacy root the
\* parent's setRealTimeData renders at once, which runs the outstanding effect
Broadcast ==
    /\ hist.ops < MaxControlOps
    /\ snapshot' = [emitted |-> snapshot.emitted + 1, payload |-> Payload(ref)]
    /\ snapTag' = refTag
    /\ hist' = [hist EXCEPT !.ops = @ + 1,
                            !.idleEmits = IF isRunning THEN @ ELSE @ + 1]
    /\ IF root = "legacy"
       THEN /\ ref' = FlushedRef
            /\ refTag' = FlushedRefTag
            /\ effectPending' = FALSE
       ELSE UNCHANGED <<ref, refTag, effectPending>>
    /\ UNCHANGED <<state, acc, pending, isRunning, root, last, stateTag>>

Next ==
    \/ Start
    \/ Stop
    \/ Tick
    \/ Reset
    \/ \E m \in {"baseline", "rl"} : SetMode(m)
    \/ Commit
    \/ SyncRef
    \/ Broadcast

Spec == Init /\ [][Next]_vars

----------------------------------------------------------------------------
(* The path interpolation on its own: route progress of any magnitude *)

MaxLaps == 3              \* laps of the route covered by the progress values tried
RouteStepsPerSegment == 4 \* progress values tried per route segment
FarLap == 21400           \* a lap number close to the largest progress that fits 32 bits

\* the progress values tried: every quarter segment of the first laps and of a far lap
RouteProgressInputs ==
    {lap * routeLen * PU + k * (PU \div RouteStepsPerSegment) :
        lap \in (0 .. (MaxLaps - 1)) \cup {FarLap},
        k \in 0 .. (RouteStepsPerSegment * routeLen - 1)}

\* a fleet whose vehicle 0 is at progress p
RouteInit ==
    \E p \in RouteProgressInputs :
        InitFrom([ResetScenario EXCEPT !.name = "route", !.vehicles[0].progress = p],
                 "legacy")

\* B. path interpolation, applied to the progress of vehicle 0
Locate ==
    /\ last.kind = "none"
    /\ \E p \in {state.vehicles[0].progress} :
          last' = [kind |-> "locate", progress |-> p,
                   currIdx |-> currIdxOf(p), nextIdx |-> nextIdxOf(p),
                   position |-> InterpolatedPosition(p)]
    /\ UNCHANGED <<state, ref, acc, pending, effectPending, isRunning, snapshot, root,
                   stateTag, refTag, snapTag, hist>>

RouteNext == Locate

RouteSpec == RouteInit /\ [][RouteNext]_vars

----------------------------------------------------------------------------
(* The Stepper left running in RL mode: no reset, no mode switch, no stop *)

MaxLiveTicks == 270     \* Stepper invocations of the uninterrupted run
MaxArrivalTicks == 2    \* invocations, from the start, whose arrival gate may open

\* 35630 ticks after a reset in RL mode, no arrival draw having succeeded: vehicle 5 is
\* on the closing segment of the route, 179 ticks short of the depot waypoint, with a
\* battery six ticks above the charging threshold; the other batteries are above 34%
LowBatteryScenario ==
    [name |-> "lowBattery", mode |-> "rl", k |-> 35630, platooned |-> TRUE,
     vehicles |->
        Fleet(<<Veh(0, 1503, 3889, 1413264, 5489435, "moving", 50, 0, 3, 1, TRUE, "CRUISE", 0, 0),
                Veh(1, 1306, 4480, 1419832, 4991162, "moving", 50, 0, 3, 1, TRUE, "CRUISE", 0, 0),
                Veh(2, 3533, 4410, 1428962, 4493758, "moving", 28, 0, 8, 1, FALSE, "CRUISE", 0, 0),
                Veh(3, 5340, 2939, 1445642, 3997681, "moving", 40, 0, 8, 1, FALSE, "CRUISE", 0, 0),
                Veh(4, 1180, 2605, 1489079, 3504814, "moving", 50, 0, 3, 1, TRUE, "CRUISE", 0, 0),
                Veh(5, 1200, 2800, 1492719, 3000576, "moving", 50, 0, 3, 1, TRUE, "CRUISE", 0, 0)>>),
     stations |-> initialStations,
     metrics |->
        [totalEnergy |-> 24022574, totalEnergyBaseline |-> 25390080, totalServed |-> 0,
         totalDist |-> 8599498, platoonDist |-> 3629930, emptyDist |-> 8599498, totalWaitTime |-> 0,
         gridInfo |-> [solar |-> 28, load |-> 5804, price |-> 30, status |-> "NORMAL"]],
     logs |-> <<Log(36589, 36590, "SYSTEM", "congestionStable", 0 - 1), Log(36580, 36581, "SYSTEM", "congestionStable", 0 - 1),
               Log(36579, 36580, "SYSTEM", "congestionStable", 0 - 1), Log(36570, 36571, "SYSTEM", "congestionStable", 0 - 1),
               Log(36569, 36570, "SYSTEM", "congestionStable", 0 - 1), Log(36560, 36561, "SYSTEM", "congestionStable", 0 - 1),
               Log(36559, 36560, "SYSTEM", "congestionStable", 0 - 1), Log(36550, 36551, "SYSTEM", "congestionStable", 0 - 1),
               Log(36549, 36550, "SYSTEM", "congestionStable", 0 - 1), Log(36540, 36541, "SYSTEM", "congestionStable", 0 - 1)>>,
     statsHistory |-> <<Sample(15, 15, 43, 23887759, 25244786), Sample(15, 20, 43, 23893879, 25251284),
                       Sample(15, 20, 43, 23894559, 25252006), Sample(15, 25, 43, 23900679, 25258504),
                       Sample(15, 25, 43, 23901359, 25259226), Sample(15, 30, 43, 23907479, 25265724),
                       Sample(15, 30, 43, 23908159, 25266446), Sample(15, 35, 43, 23914279, 25272944),
                       Sample(15, 35, 43, 23914959, 25273666), Sample(15, 40, 43, 23921079, 25280164),
                       Sample(15, 40, 43, 23921759, 25280886), Sample(15, 45, 43, 23927879, 25287384),
                       Sample(15, 45, 43, 23928559, 25288106), Sample(15, 50, 43, 23934679, 25294604),
                       Sample(15, 50, 43, 23935359, 25295326), Sample(15, 55, 43, 23941479, 25301824),
                       Sample(15, 55, 43, 23942159, 25302546), Sample(16, 0, 43, 23948279, 25309044),
                       Sample(16, 0, 43, 23948959, 25309766), Sample(16, 5, 43, 23955079, 25316264),
                       Sample(16, 5, 43, 23955759, 25316986), Sample(16, 10, 43, 23961879, 25323484),
                       Sample(16, 10, 43, 23962559, 25324206), Sample(16, 15, 43, 23968679, 25330704),
                       Sample(16, 15, 43, 23969359, 25331426), Sample(16, 20, 43, 23975479, 25337924),
                       Sample(16, 20, 43, 23976159, 25338646), Sample(16, 25, 43, 23982279, 25345144),
                       Sample(16, 25, 43, 23982959, 25345866), Sample(16, 30, 43, 23989074, 25352380),
                       Sample(16, 30, 43, 23989744, 25353134), Sample(16, 35, 43, 23995774, 25359920),
                       Sample(16, 35, 43, 23996444, 25360674), Sample(16, 40, 42, 24002474, 25367460),
                       Sample(16, 40, 42, 24003144, 25368214), Sample(16, 45, 42, 24009174, 25375000),
                       Sample(16, 45, 42, 24009844, 25375754), Sample(16, 50, 42, 24015874, 25382540),
                       Sample(16, 50, 42, 24016544, 25383294), Sample(16, 55, 42, 24022574, 25390080)>>,
     acc |-> [total |-> 24022574, baseline |-> 25390080]]

LiveInit == \E rootKind \in Roots : InitFrom(LowBatteryScenario, rootKind)

\* the draws of an invocation of the uninterrupted run: the arrival gate opens during
\* the first invocations only, and then for the stops whose draw is certain
LiveDraws ==
    {rnd \in RandomDraws :
        rnd.spawn.gate => /\ hist.ticks < MaxArrivalTicks
                          /\ rnd.spawn.at = {id \in Stops : CertainArrival(id)}}

\* one firing of the 50 ms interval, the render and the effect of the firing before it
\* being over, as they are when a render takes less than the interval
LiveTick ==
    /\ StepperActive
    /\ hist.ticks < MaxLiveTicks
    /\ pending = <<>>
    /\ ~effectPending
    /\ \E rnd \in LiveDraws : Invoke(rnd)

LiveNext ==
    \/ Start
    \/ LiveTick
    \/ Commit
    \/ SyncRef

\* the steps of LiveTick, told by its guard and by the invocation it counts: no other
\* step of LiveNext counts an invocation, and an invocation is possible whatever it reads
IntervalFires ==
    /\ StepperActive
    /\ hist.ticks < MaxLiveTicks
    /\ pending = <<>>
    /\ ~effectPending
    /\ hist' \in {[hist EXCEPT !.ticks = @ + 1, !.invocations = @ + 1, !.platooned = p] :
                     p \in BOOLEAN}

\* setInterval keeps firing while the Stepper is active; React renders the updates a
\* callback queued and runs the effects of a render
LiveSpec ==
    /\ LiveInit
    /\ [][LiveNext]_vars
    /\ WF_hist(IntervalFires)
    /\ WF_vars(Commit)
    /\ WF_vars(SyncRef)

----------------------------------------------------------------------------
(* Properties *)

LastIsTick == last.kind = "tick"

\* the battery a moving vehicle has after "battery -= energyConsumed"
BatteryAfter(i) == last.read.vehicles[i].battery - last.energy[i]

AllFleets ==
    {state.vehicles, ref.vehicles} \cup {pending[k].nextVehicles :
                                           k \in {j \in DOMAIN pending : pending[j].kind = "tick"}}

\* C1: after any sequence of ticks, resets and mode switches, every vehicle's battery is
\* within [0, 100], in the committed state, in the ref and in every update still queued
C1_BatteryWithinRange ==
    \A fleet \in AllFleets : \A i \in Vehicles :
        fleet[i].battery >= 0 /\ fleet[i].battery <= 100 * BU

\* a tick in which the energy of the tick exceeded what a vehicle had left, which now holds 0
C1_FloorReached ==
    /\ LastIsTick
    /\ \E i \in Vehicles :
        /\ last.read.vehicles[i].status = "moving"
        /\ BatteryAfter(i) < 0
        /\ last.nextVehicles[i].battery = 0
        /\ pending = <<>> /\ state.vehicles[i].battery = 0

\* C2: in every invocation in RL mode, a moving vehicle that reaches the depot waypoint
\* with less than 25% is written back charging; a charging vehicle gains the charge rate
\* and is written back charging while it is below 95%, moving once it is at least 95%
C2_ChargeUntilTarget ==
    LastIsTick =>
        \A i \in Vehicles :
            /\ ( /\ last.read.mode = "rl"
                 /\ last.read.vehicles[i].status = "moving"
                 /\ last.stop[i] = "depot"
                 /\ BatteryAfter(i) < POLICY_THRESHOLD * BU )
               => last.nextVehicles[i].status = "charging"
            /\ last.read.vehicles[i].status = "charging"
               => /\ last.nextVehicles[i].battery = last.read.vehicles[i].battery + ChargeRate
                  /\ last.nextVehicles[i].status =
                        IF last.nextVehicles[i].battery >= CHARGE_TARGET * BU
                        THEN "moving" ELSE "charging"

\* a vehicle taken in at the depot below 25% by the previous tick is kept charging by this one
C2_KeptCharging ==
    /\ LastIsTick
    /\ hist.ticks = 2
    /\ \E i \in Vehicles :
        /\ last.read.vehicles[i].status = "charging"
        /\ last.read.vehicles[i].battery < POLICY_THRESHOLD * BU
        /\ last.read.vehicles[i].progress \div PU > (last.read.vehicles[i].progress - BaseSpeed(TRUE, "depot")) \div PU
        /\ RouteAt(Floor(last.read.vehicles[i].progress) % routeLen) = "depot"
        /\ last.nextVehicles[i].status = "charging"
        /\ pending = <<>> /\ state.vehicles[i].status = "charging"

\* C3: the counterfactual energy total is at least the actual one, in the accumulator, in
\* the committed metrics, in the ref and in the latest snapshot; the accumulator and the
\* committed metrics hold equal totals while no vehicle has platooned since the last reset
C3_CounterfactualAtLeastActual ==
    /\ acc.baseline >= acc.total
    /\ state.metrics.totalEnergyBaseline >= state.metrics.totalEnergy
    /\ ref.metrics.totalEnergyBaseline >= ref.metrics.totalEnergy
    /\ snapshot.emitted > 0 =>
          snapshot.payload.metrics.totalEnergyBaseline >= snapshot.payload.metrics.totalEnergy
    /\ ~hist.platooned =>
          /\ acc.baseline = acc.total
          /\ state.metrics.totalEnergyBaseline = state.metrics.totalEnergy

\* a tick with a platooning vehicle has been committed: the totals moved apart by the saving
C3_PlatoonSaving ==
    /\ LastIsTick
    /\ last.cycleEnergyBaseline > last.cycleEnergy
    /\ last.cycleEnergy > 0
    /\ hist.platooned
    /\ pending = <<>>
    /\ state.metrics.totalEnergy = acc.total
    /\ state.metrics.totalEnergyBaseline = acc.baseline
    /\ acc.baseline > acc.total

\* the arrivals the tick added to a station before its boarding update
ArrivedAt(id) ==
    IF last.spawn.gate /\ id \in last.spawn.at /\ LOCATIONS[id].type # "depot"
          /\ last.read.stations[id].queue < QUEUE_CEILING
    THEN 1 ELSE 0

\* C4: in every invocation and for every station, the vehicles arriving at the station
\* board in total at most the passengers waiting there (those the tick read plus the one
\* its arrival step added)
C4_BoardedWithinQueue ==
    LastIsTick =>
        \A id \in StationIds :
            last.stationUpdates[id] <= last.read.stations[id].queue + ArrivedAt(id)

\* two vehicles reached a station in one tick and each boarded its whole queue
C4_BoardedTwice ==
    /\ LastIsTick
    /\ \E id \in StationIds : \E i, j \in Vehicles :
        /\ i # j
        /\ last.stop[i] = id /\ last.stop[j] = id
        /\ last.boarded[i] = last.read.stations[id].queue
        /\ last.boarded[j] = last.read.stations[id].queue
        /\ last.read.stations[id].queue > 0
        /\ pending = <<>>
        /\ state.stations[id].queue = 0
        /\ state.stations[id].totalServed > last.read.stations[id].totalServed
                                             + last.read.stations[id].queue + ArrivedAt(id)

\* C5: the fields of an emitted snapshot that belong to the same reset generation hold
\* the result of the same number of ticks
C5_SnapshotOfOneTick ==
    snapshot.emitted > 0 =>
        \A f, g \in TagFields :
            snapTag[f].gen = snapTag[g].gen => snapTag[f].n = snapTag[g].n

\* a snapshot with the vehicles and time of one tick and the metrics of another
C5_MixedSnapshot ==
    /\ snapshot.emitted > 0
    /\ hist.resets = 0
    /\ snapTag.vehicles = snapTag.gameTime
    /\ snapTag.metrics.n # snapTag.vehicles.n

\* C6: the fields of an emitted snapshot all belong to the same reset generation
C6_SnapshotOfOneGeneration ==
    snapshot.emitted > 0 =>
        \A f, g \in TagFields : snapTag[f].gen = snapTag[g].gen

\* a snapshot with the stations of the reset and the vehicles, time and metrics from before
C6_HalfResetSnapshot ==
    /\ snapshot.emitted > 0
    /\ hist.resets = 1
    /\ snapTag.stations.gen = 1
    /\ snapTag.vehicles.gen = 0 /\ snapTag.gameTime.gen = 0 /\ snapTag.metrics.gen = 0
    /\ \A id \in StationIds :
          snapshot.payload.stations[id].waitingCount = 0
          /\ snapshot.payload.stations[id].totalServed = 0
    /\ snapshot.payload.gameTime > START_TIME * TU
    /\ snapshot.payload.metrics.totalDist > 0

\* C7: once every queued update is rendered, the clock shows the start time plus one
\* increment for each invocation since the last reset
C7_ClockCountsInvocations ==
    pending = <<>> => state.gameTime = START_TIME * TU + hist.invocations

\* two invocations were rendered and the clock moved by one increment
C7_LostIncrement ==
    /\ pending = <<>>
    /\ hist.resets = 0
    /\ hist.ticks = 2
    /\ state.gameTime < START_TIME * TU + hist.invocations

\* C8: every field of the committed state belongs to the latest reset, and the first
\* invocation after a reset reads the reset fleet at 08:00
C8_ResetNotOverwritten ==
    /\ \A f \in TagFields : stateTag[f].gen = hist.resets
    /\ (LastIsTick /\ last.resets > 0 /\ last.invocation = 1) =>
          /\ last.read.vehicles = ResetVehicles
          /\ last.read.gameTime = START_TIME * TU

\* after a reset, an invocation has written back the fleet and the clock from before it
C8_PreResetWrittenBack ==
    /\ hist.resets = 1
    /\ LastIsTick /\ last.resets = 1 /\ last.invocation = 1
    /\ last.read.vehicles # ResetVehicles
    /\ last.read.gameTime > START_TIME * TU
    /\ state.vehicles = last.nextVehicles
    /\ state.gameTime = last.newTime

\* C9: in every invocation, a moving vehicle is written back charging only if it reached
\* the depot waypoint in RL mode with a battery below the policy's 25%
C9_ChargingOnlyBelowPolicyThreshold ==
    LastIsTick =>
        \A i \in Vehicles :
            ( /\ last.read.vehicles[i].status = "moving"
              /\ last.nextVehicles[i].status = "charging" )
            => /\ last.stop[i] = "depot"
               /\ last.read.mode = "rl"
               /\ BatteryAfter(i) < POLICY_THRESHOLD * BU

\* a vehicle was taken in at the depot with 25% or more, while the policy said CRUISE
C9_ChargingWhileCruise ==
    /\ LastIsTick
    /\ \E i \in Vehicles :
        /\ last.read.vehicles[i].status = "moving"
        /\ last.nextVehicles[i].status = "charging"
        /\ last.stop[i] = "depot"
        /\ BatteryAfter(i) >= POLICY_THRESHOLD * BU
        /\ last.nextVehicles[i].aiState = "CRUISE"

WithinPlatoonRange(d2) ==
    /\ d2 < (PLATOON_DISTANCE * XU) * (PLATOON_DISTANCE * XU)
    /\ d2 > (MIN_SEPARATION * XU) * (MIN_SEPARATION * XU)

\* two moving vehicles the tick read within platoon range of each other, by the positions
\* stored with them and by the positions their progress gives
ClosePair(i, j) ==
    /\ i # j
    /\ last.read.vehicles[i].status = "moving"
    /\ last.read.vehicles[j].status = "moving"
    /\ WithinPlatoonRange(calcDist2(last.read.vehicles[i], last.read.vehicles[j]))
    /\ WithinPlatoonRange(calcDist2(InterpolatedPosition(last.read.vehicles[i].progress),
                                    InterpolatedPosition(last.read.vehicles[j].progress)))

\* C10: in every invocation in RL mode, two moving vehicles within platoon range of each
\* other are both written back platooning, with the low drag coefficient
C10_BothPlatoon ==
    (LastIsTick /\ last.read.mode = "rl") =>
        \A i, j \in Vehicles :
            ClosePair(i, j) =>
                /\ last.nextVehicles[i].platooning /\ last.nextVehicles[i].dragCoeff = LOW_DRAG
                /\ last.nextVehicles[j].platooning /\ last.nextVehicles[j].dragCoeff = LOW_DRAG

\* of two vehicles within range, one was written back platooning and the other was not
C10_OneSidedPlatoon ==
    /\ LastIsTick /\ last.read.mode = "rl"
    /\ \E i, j \in Vehicles :
        /\ ClosePair(i, j)
        /\ last.nextVehicles[i].platooning /\ last.nextVehicles[i].dragCoeff = LOW_DRAG
        /\ ~last.nextVehicles[j].platooning /\ last.nextVehicles[j].dragCoeff = HIGH_DRAG

\* C11: in every invocation that runs in baseline mode, no vehicle is written back with
\* platooning true or with the low drag coefficient
C11_NoPlatoonInBaseline ==
    (LastIsTick /\ last.read.mode = "baseline") =>
        \A i \in Vehicles :
            /\ ~last.nextVehicles[i].platooning
            /\ last.nextVehicles[i].dragCoeff # LOW_DRAG

\* a baseline invocation wrote back a charging vehicle with the platoon flag and drag it
\* had when it reached the depot
C11_ChargingKeepsPlatoonFlag ==
    /\ LastIsTick /\ last.read.mode = "baseline"
    /\ \E i \in Vehicles :
        /\ last.read.vehicles[i].status = "charging"
        /\ last.nextVehicles[i].platooning
        /\ last.nextVehicles[i].dragCoeff = LOW_DRAG
        /\ \A j \in Vehicles :
              last.read.vehicles[j].status = "moving" =>
                  ~last.nextVehicles[j].platooning /\ last.nextVehicles[j].dragCoeff = HIGH_DRAG

\* C12: in every invocation that runs in baseline mode, no vehicle read as moving is
\* written back charging
C12_NoChargingInBaseline ==
    (LastIsTick /\ last.read.mode = "baseline") =>
        \A i \in Vehicles :
            last.read.vehicles[i].status = "moving" => last.nextVehicles[i].status = "moving"

\* a baseline invocation in which a vehicle reached the depot waypoint below 25% and moved on
C12_LowAtDepotMovesOn ==
    /\ LastIsTick /\ last.read.mode = "baseline"
    /\ \E i \in Vehicles :
        /\ last.read.vehicles[i].status = "moving"
        /\ last.stop[i] = "depot"
        /\ BatteryAfter(i) < POLICY_THRESHOLD * BU
        /\ last.nextVehicles[i].status = "moving"
        /\ last.nextVehicles[i].aiState = "BASELINE"

\* C13: every station's queue is within [0, 30], in the committed state, in the ref and
\* in the latest snapshot (an arrival at a full queue is dropped)
C13_QueueWithinCeiling ==
    \A id \in StationIds :
        /\ state.stations[id].queue >= 0 /\ state.stations[id].queue <= QUEUE_CEILING
        /\ ref.stations[id].queue >= 0 /\ ref.stations[id].queue <= QUEUE_CEILING
        /\ snapshot.emitted > 0 =>
              /\ snapshot.payload.stations[id].waitingCount >= 0
              /\ snapshot.payload.stations[id].waitingCount <= QUEUE_CEILING

\* the arrival step of a rendered tick drew an arrival at a station whose queue was at the
\* ceiling, no vehicle boarded there, and the queue is still at the ceiling
C13_ArrivalAtCeilingDropped ==
    /\ LastIsTick /\ last.spawn.gate
    /\ hist.ticks = 1 /\ pending = <<>>
    /\ \E id \in last.spawn.at :
        /\ last.read.stations[id].queue = QUEUE_CEILING
        /\ last.stationUpdates[id] = 0
        /\ state.stations[id].queue = QUEUE_CEILING

\* the riders a vehicle had left after alighting at the stop of this invocation
RidersAfterAlighting(i) ==
    last.read.vehicles[i].passengers - last.nextVehicles[i].alightedLast

\* vehicle i exchanged passengers at a stop in this invocation
Exchanged(i) ==
    /\ last.read.vehicles[i].status = "moving"
    /\ last.stop[i] # NoStop
    /\ last.nextVehicles[i].status = "moving"

\* C14: every vehicle's passenger count is within [0, capacity], in the committed state,
\* in the ref and in every queued update; at a stop a vehicle lets off at most 40% of its
\* riders and takes on at most its free capacity
C14_PassengersWithinCapacity ==
    /\ \A fleet \in AllFleets : \A i \in Vehicles :
          fleet[i].passengers >= 0 /\ fleet[i].passengers <= fleet[i].capacity
    /\ LastIsTick =>
          \A i \in Vehicles :
              Exchanged(i) =>
                  /\ last.nextVehicles[i].alightedLast >= 0
                  /\ 10 * last.nextVehicles[i].alightedLast <= 4 * last.read.vehicles[i].passengers
                  /\ last.nextVehicles[i].boardedLast >= 0
                  /\ last.nextVehicles[i].boardedLast
                        <= last.read.vehicles[i].capacity - RidersAfterAlighting(i)
                  /\ last.nextVehicles[i].passengers
                        = RidersAfterAlighting(i) + last.nextVehicles[i].boardedLast

\* a full vehicle let riders off at a stop with a longer queue than the seats freed, and
\* left full with part of the queue still waiting
C14_FilledToCapacity ==
    /\ LastIsTick
    /\ \E i \in Vehicles :
        /\ Exchanged(i)
        /\ last.read.vehicles[i].passengers = last.read.vehicles[i].capacity
        /\ last.nextVehicles[i].alightedLast > 0
        /\ last.read.stations[last.stop[i]].queue > last.nextVehicles[i].alightedLast
        /\ last.nextVehicles[i].boardedLast = last.nextVehicles[i].alightedLast
        /\ last.nextVehicles[i].passengers = last.nextVehicles[i].capacity
        /\ pending = <<>> /\ state.vehicles[i].passengers = state.vehicles[i].capacity

\* the position the route interpolation gives for a vehicle's progress
DerivedPosition(v) == InterpolatedPosition(v.progress)

\* C15: in every committed state each vehicle's (x, y) is the route interpolation of its
\* progress
C15_PositionFollowsProgress ==
    \A i \in Vehicles :
        /\ state.vehicles[i].x = DerivedPosition(state.vehicles[i]).x
        /\ state.vehicles[i].y = DerivedPosition(state.vehicles[i]).y

\* a tick has been rendered and a moving vehicle holds the position of the progress it
\* had before the tick, which is not the position of the progress it has now
C15_PositionLagsOneTick ==
    /\ LastIsTick /\ pending = <<>> /\ state.vehicles = last.nextVehicles
    /\ \E i \in Vehicles :
        /\ last.read.vehicles[i].status = "moving"
        /\ state.vehicles[i].progress > last.read.vehicles[i].progress
        /\ state.vehicles[i].x = DerivedPosition(last.read.vehicles[i]).x
        /\ state.vehicles[i].y = DerivedPosition(last.read.vehicles[i]).y
        /\ \/ state.vehicles[i].x # DerivedPosition(state.vehicles[i]).x
           \/ state.vehicles[i].y # DerivedPosition(state.vehicles[i]).y

\* C18: in every committed state the stored grid state is the grid state of the committed
\* simulated time
C18_GridStateOfCurrentTime ==
    state.metrics.gridInfo = GridStateAt(state.gameTime)

\* a reset has been rendered: the clock shows 08:00 and the stored grid state is the one
\* resetSimulation writes, not the grid state of 08:00
C18_ResetGridState ==
    /\ hist.resets = 1 /\ pending = <<>>
    /\ state.gameTime = START_TIME * TU
    /\ state.metrics.gridInfo = ResetMetrics.gridInfo
    /\ state.metrics.gridInfo.solar # GridStateAt(START_TIME * TU).solar
    /\ state.metrics.gridInfo.load # GridStateAt(START_TIME * TU).load
    /\ state.metrics.gridInfo.price # GridStateAt(START_TIME * TU).price

\* C19: in every committed state the stored price and status are those of the tier of the
\* stored net load
C19_TierAgreesWithLoad ==
    /\ state.metrics.gridInfo.price = GridTier(state.metrics.gridInfo.load).price
    /\ state.metrics.gridInfo.status = GridTier(state.metrics.gridInfo.load).status

\* a reset has been rendered: the stored load is in the middle tier, the status is NORMAL
\* and the price is none of the three tier prices
C19_ResetPrice ==
    /\ hist.resets = 1 /\ pending = <<>>
    /\ state.metrics.gridInfo.load >= GRID_LOW * 100
    /\ state.metrics.gridInfo.load <= GRID_HIGH * 100
    /\ state.metrics.gridInfo.status = "NORMAL"
    /\ state.metrics.gridInfo.price \notin
          {GridTier(l).price : l \in {GRID_LOW * 100 - 1, GRID_LOW * 100, GRID_HIGH * 100 + 1}}

\* the metrics a reader can see: committed, in the ref, in the latest snapshot
VisibleMetrics ==
    {state.metrics, ref.metrics}
        \cup (IF snapshot.emitted > 0 THEN {snapshot.payload.metrics} ELSE {})

\* C16: in all visible metrics the platoon and empty distances are at most the total
\* distance and the energy saving is between 0 and the counterfactual energy; the three
\* ratios shown are within [0, 100] percent and are 0 when their denominator is 0
C16_RatiosWithinUnit ==
    \A m \in VisibleMetrics :
        /\ m.platoonDist >= 0 /\ m.platoonDist <= m.totalDist
        /\ m.emptyDist >= 0 /\ m.emptyDist <= m.totalDist
        /\ m.totalEnergyBaseline - m.totalEnergy >= 0
        /\ m.totalEnergyBaseline - m.totalEnergy <= m.totalEnergyBaseline
        /\ PlatoonRatio(m) >= 0 /\ PlatoonRatio(m) <= 100
        /\ EmptyRatio(m) >= 0 /\ EmptyRatio(m) <= 100
        /\ SavingRatio(m) >= 0 /\ SavingRatio(m) <= 1000
        /\ m.totalDist = 0 => PlatoonRatio(m) = 0 /\ EmptyRatio(m) = 0
        /\ m.totalEnergyBaseline = 0 => SavingRatio(m) = 0

\* a reset of a run with distance and saving has been rendered and a first tick after it:
\* the ratios were 0 with their denominators, and lie strictly inside the range now
C16_RatiosAfterReset ==
    /\ hist.resets = 1 /\ pending = <<>>
    /\ LastIsTick /\ last.resets = 1
    /\ last.read.vehicles = ResetVehicles
    /\ PlatoonRatio(ResetMetrics) = 0 /\ EmptyRatio(ResetMetrics) = 0
    /\ SavingRatio(ResetMetrics) = 0
    /\ state.metrics.totalDist > 0
    /\ PlatoonRatio(state.metrics) > 0 /\ PlatoonRatio(state.metrics) < 100
    /\ EmptyRatio(state.metrics) = 100
    /\ SavingRatio(state.metrics) > 0 /\ SavingRatio(state.metrics) < 1000

MetricCounters ==
    {"totalEnergy", "totalEnergyBaseline", "totalServed", "totalDist", "platoonDist",
     "emptyDist", "totalWaitTime"}

\* C17: a step that is not a reset decreases no counter of the committed metrics, neither
\* total of the energy accumulator and no station's totalServed, and every invocation
\* hands non-negative deltas to the setters
C17_AccumulatorsNeverDecrease ==
    [][ /\ hist'.resets = hist.resets =>
              /\ \A f \in MetricCounters : state'.metrics[f] >= state.metrics[f]
              /\ acc'.total >= acc.total /\ acc'.baseline >= acc.baseline
              /\ \A id \in StationIds :
                    state'.stations[id].totalServed >= state.stations[id].totalServed
        /\ last'.kind = "tick" =>
              /\ last'.cycleEnergy >= 0 /\ last'.cycleEnergyBaseline >= 0
              /\ \A i \in Vehicles :
                    last'.energy[i] >= 0 /\ last'.dist[i] >= 0 /\ last'.boarded[i] >= 0
              /\ \A id \in StationIds : last'.stationUpdates[id] >= 0
      ]_vars

\* a tick with energy, distance, waiting passengers and boardings has been rendered on
\* top of totals that were already positive
C17_TickAccumulated ==
    /\ LastIsTick /\ pending = <<>> /\ hist.resets = 0 /\ hist.ticks = 1
    /\ last.cycleEnergy > 0
    /\ state.metrics.totalEnergy = acc.total
    /\ state.metrics.totalEnergy > last.cycleEnergy
    /\ state.metrics.totalWaitTime > TotalQueue(last.read.stations)
    /\ TotalQueue(last.read.stations) > 0
    /\ \E id \in StationIds :
        /\ last.stationUpdates[id] > 0
        /\ state.stations[id].totalServed
              = last.read.stations[id].totalServed + last.stationUpdates[id]

\* C20: in every invocation, a vehicle read as charging is written back with the same
\* progress, position and passengers and with the charge rate added to its battery, and
\* contributes no energy, counterfactual energy or distance
C20_ChargingFrame ==
    LastIsTick =>
        \A i \in Vehicles :
            last.read.vehicles[i].status = "charging" =>
                /\ last.nextVehicles[i].progress = last.read.vehicles[i].progress
                /\ last.nextVehicles[i].x = last.read.vehicles[i].x
                /\ last.nextVehicles[i].y = last.read.vehicles[i].y
                /\ last.nextVehicles[i].passengers = last.read.vehicles[i].passengers
                /\ last.nextVehicles[i].battery = last.read.vehicles[i].battery + ChargeRate
                /\ last.energy[i] = 0
                /\ last.energyBaseline[i] = 0
                /\ last.dist[i] = 0

\* a tick with a charging vehicle has been rendered: the totals grew by what the moving
\* vehicles used and the charging vehicle holds 0.8 more
C20_ChargingTickRendered ==
    /\ LastIsTick /\ pending = <<>> /\ state.vehicles = last.nextVehicles
    /\ \E i \in Vehicles :
        /\ last.read.vehicles[i].status = "charging"
        /\ state.vehicles[i].battery = last.read.vehicles[i].battery + ChargeRate
        /\ state.vehicles[i].progress = last.read.vehicles[i].progress
        /\ last.cycleEnergy = SumOver([j \in Vehicles |->
                                          IF j = i THEN 0 ELSE last.energy[j]])
        /\ last.cycleEnergy > 0

\* C21: every charging vehicle, committed or in the ref, has no passengers; the invocation
\* that sends a vehicle to charge does so at the depot, writes its passengers as 0, boards
\* nobody and leaves its boarding and alighting counts as they were
C21_ChargingVehicleIsEmpty ==
    /\ \A fleet \in {state.vehicles, ref.vehicles} :
          \A i \in Vehicles : fleet[i].status = "charging" => fleet[i].passengers = 0
    /\ LastIsTick =>
          \A i \in Vehicles :
              (last.read.vehicles[i].status = "moving"
                  /\ last.nextVehicles[i].status = "charging") =>
                  /\ last.stop[i] = "depot"
                  /\ last.nextVehicles[i].passengers = 0
                  /\ last.boarded[i] = 0
                  /\ last.nextVehicles[i].boardedLast = last.read.vehicles[i].boardedLast
                  /\ last.nextVehicles[i].alightedLast = last.read.vehicles[i].alightedLast

\* a vehicle that carried riders into the depot has been sent to charge and is committed
\* as charging and empty
C21_RidersForcedOff ==
    /\ LastIsTick /\ pending = <<>> /\ state.vehicles = last.nextVehicles
    /\ \E i \in Vehicles :
        /\ last.read.vehicles[i].status = "moving"
        /\ last.read.vehicles[i].passengers > 0
        /\ state.vehicles[i].status = "charging"
        /\ state.vehicles[i].passengers = 0

\* the simulation state once every queued update has been rendered
Rendered == Render(state, pending, acc)

SimulationFields == {"vehicles", "stations", "metrics", "gameTime"}

C23_PositionWrapsWithRoute ==
    /\ \A i \in Vehicles :
          /\ currIdxOf(state.vehicles[i].progress) \in 0 .. (routeLen - 1)
          /\ nextIdxOf(state.vehicles[i].progress) \in 0 .. (routeLen - 1)
    /\ last.kind = "locate" =>
          /\ last.currIdx \in 0 .. (routeLen - 1)
          /\ last.nextIdx \in 0 .. (routeLen - 1)
          /\ last.position = InterpolatedPosition(last.progress % (routeLen * PU))

\* a progress beyond the first lap, inside the segment that closes the lap, has been
\* located: the next waypoint index has wrapped to 0
C23_WrappedSegmentLocated ==
    /\ last.kind = "locate"
    /\ last.progress > FarLap * routeLen * PU
    /\ last.progress % PU # 0
    /\ last.currIdx = routeLen - 1 /\ last.nextIdx = 0
    /\ last.position = InterpolatedPosition(last.progress % (routeLen * PU))
    /\ last.position = [x |-> getLoc("depot").x * XU, y |-> getLoc("depot").y * XU]

\* the invocation pushed the low-battery warning of vehicle i
WarnedLowBattery(i) ==
    \E k \in 1 .. Len(last.logBuffer) :
        last.logBuffer[k] = LogItem("WARN", "batteryCritical", i)

\* C24: an invocation emits a low-battery event for a vehicle only when the vehicle's
\* battery crosses the low-battery level on that invocation (at or above 15% when read,
\* below it after the consumption)
C24_LowBatteryLoggedOnCrossing ==
    LastIsTick =>
        \A i \in Vehicles :
            WarnedLowBattery(i) =>
                /\ last.read.vehicles[i].battery >= WARN_HIGH * BU
                /\ BatteryAfter(i) < WARN_HIGH * BU

\* a vehicle that was already below 15% when read, and stays between 5% and 15%, has
\* had a low-battery warning pushed to the committed log
C24_WarnedWithoutCrossing ==
    /\ LastIsTick /\ pending = <<>> /\ state.vehicles = last.nextVehicles
    /\ \E i \in Vehicles :
        /\ last.read.vehicles[i].status = "moving"
        /\ last.read.vehicles[i].battery < WARN_HIGH * BU
        /\ state.vehicles[i].battery > WARN_LOW * BU
        /\ WarnedLowBattery(i)
        /\ \E k \in 1 .. Len(state.logs) :
              /\ state.logs[k].category = "WARN"
              /\ state.logs[k].message = [kind |-> "batteryCritical", bus |-> i]

\* C25: of two consecutive invocations (the second reads the time the first wrote) at
\* most one samples the history and logs the congestion summary
C25_OneSampleInTen ==
    [][ (/\ last.kind = "tick" /\ last'.kind = "tick" /\ last' # last
         /\ last'.read.gameTime = last.newTime
         /\ last.sample) => ~last'.sample ]_vars

\* two ticks in a row have sampled: the tick of a half minute has appended a second
\* history sample with the time label of the one before it
C25_SampledTwiceInARow ==
    /\ LastIsTick /\ pending = <<>> /\ hist.ticks = 2 /\ hist.resets = 0
    /\ state.gameTime = last.newTime
    /\ last.sample /\ last.newTime % TU = 1
    /\ Len(state.statsHistory) >= 2
    /\ state.statsHistory[Len(state.statsHistory)].time = formatTime(last.newTime)
    /\ state.statsHistory[Len(state.statsHistory) - 1].time = formatTime(last.newTime)
    /\ state.statsHistory[Len(state.statsHistory)].energy
          > state.statsHistory[Len(state.statsHistory) - 1].energy

\* the log after is the log before with n entries put at its head: the entries kept are
\* the newest of before, in their order, and one is dropped only when the cap is reached
HeadExtended(before, after) ==
    \E n \in 1 .. Len(after) :
        /\ Len(after) - n <= Len(before)
        /\ SubSeq(after, n + 1, Len(after)) = SubSeq(before, 1, Len(after) - n)
        /\ Len(after) - n < Len(before) => Len(after) = LOG_CAP

\* the first entries of the log are the entries of the batch, newest first
HeadIsBatch(logs, entries) ==
    \A j \in 1 .. Min(Len(entries), LOG_CAP) : logs[j] = entries[Len(entries) + 1 - j]

\* C26: the event log, committed or in the ref, never holds more than 10 entries; a step
\* that is not a reset changes it only by putting entries at its head, keeping the newest
\* of the others unchanged and in order; the events of an invocation are at the head,
\* newest first, when the invocation has been rendered
C26_LogIsCappedAndHeadExtended ==
    [][ /\ Len(state'.logs) <= LOG_CAP /\ Len(ref'.logs) <= LOG_CAP
        /\ (hist'.resets = hist.resets /\ state'.logs # state.logs) =>
              HeadExtended(state.logs, state'.logs)
        /\ (pending = <<>> /\ pending' = <<>> /\ last' # last) =>
              HeadIsBatch(state'.logs,
                          [k \in 1 .. Len(last'.logBuffer) |->
                              LogEntry(last'.newTime, last'.logBuffer[k])])
        /\ (Len(pending) = 1 /\ pending' = <<>> /\ pending[1].kind = "tick") =>
              HeadIsBatch(state'.logs, pending[1].logEntries)
      ]_vars

\* an invocation that pushed two events or more onto a full log has been rendered: the
\* log is still at its cap and starts with the events of the invocation, newest first
C26_PushedOntoFullLog ==
    /\ LastIsTick /\ pending = <<>> /\ hist.ticks = 1 /\ hist.resets = 0
    /\ state.gameTime = last.newTime
    /\ Len(last.logBuffer) >= 2
    /\ Len(state.logs) = LOG_CAP
    /\ \A j \in 1 .. Len(last.logBuffer) :
          /\ state.logs[j].category = last.logBuffer[Len(last.logBuffer) + 1 - j].category
          /\ state.logs[j].message = last.logBuffer[Len(last.logBuffer) + 1 - j].msg
    /\ state.logs[Len(last.logBuffer) + 1].message.kind \in
          {"congestionSummary", "congestionStable"}

\* what the batteries of the vehicles read as moving lost in the invocation
BatteryDrop(i) ==
    IF last.read.vehicles[i].status = "moving"
    THEN last.read.vehicles[i].battery - last.nextVehicles[i].battery
    ELSE 0

\* C27: the energy an invocation adds to the actual total equals the sum of what the
\* batteries of the moving vehicles lost in it
C27_EnergyBookedIsBatteryDrop ==
    LastIsTick =>
        last.cycleEnergy = SumOver([i \in Vehicles |-> BatteryDrop(i)])

\* a moving vehicle with an empty battery has been through a rendered tick: its battery
\* is still 0 and the total grew by more than the other batteries lost
C27_EnergyBookedAtEmptyBattery ==
    /\ LastIsTick /\ pending = <<>> /\ state.vehicles = last.nextVehicles
    /\ state.metrics.totalEnergy = acc.total
    /\ \E i \in Vehicles :
        /\ last.read.vehicles[i].status = "moving"
        /\ last.read.vehicles[i].battery = 0
        /\ state.vehicles[i].battery = 0
        /\ last.energy[i] > 0
        /\ last.cycleEnergy = SumOver([j \in Vehicles |-> BatteryDrop(j)]) + last.energy[i]

\* the sum of totalServed over the stations
ServedAtStations(stations) ==
    SumUpTo([i \in 0 .. (Len(StationSeq) - 1) |-> stations[StationSeq[i + 1]].totalServed],
            Len(StationSeq) - 1)

\* C28: in every committed state the fleet-wide totalServed equals the sum of the
\* stations' totalServed, and so it does in the ref once the ref effect has run; every
\* invocation adds the same amount to both
C28_ServedTotalsAgree ==
    /\ state.metrics.totalServed = ServedAtStations(state.stations)
    /\ ~effectPending => ref.metrics.totalServed = ServedAtStations(ref.stations)
    /\ LastIsTick =>
          last.cycleServed
              = SumUpTo([i \in 0 .. (Len(StationSeq) - 1) |->
                            last.stationUpdates[StationSeq[i + 1]]], Len(StationSeq) - 1)

\* a tick in which the vehicles boarded more riders at a station than were queueing
\* there has been rendered: both totals grew by the number boarded
C28_ServedBeyondQueue ==
    /\ LastIsTick /\ pending = <<>> /\ hist.ticks = 1 /\ hist.resets = 0
    /\ state.vehicles = last.nextVehicles
    /\ last.cycleServed > 0
    /\ state.metrics.totalServed = ServedAtStations(state.stations)
    /\ state.metrics.totalServed
          = ServedAtStations(last.read.stations) + last.cycleServed
    /\ \E id \in StationIds :
          /\ last.read.stations[id].queue > 0
          /\ last.stationUpdates[id] > last.read.stations[id].queue

\* vehicle j, as the invocation read it, is within platoon range of the position the
\* invocation interpolated for vehicle i
PartnerInRange(i, j) ==
    /\ i # j
    /\ WithinPlatoonRange(calcDist2(InterpolatedPosition(last.read.vehicles[i].progress),
                                    last.read.vehicles[j]))

\* C29: no charging vehicle, committed or written back by an invocation, reports
\* platooning or the low drag coefficient, and every moving vehicle an invocation writes
\* back platooning has a moving vehicle within platoon range
C29_ChargingOutsidePlatoon ==
    /\ \A i \in Vehicles :
          state.vehicles[i].status = "charging" =>
              ~state.vehicles[i].platooning /\ state.vehicles[i].dragCoeff = HIGH_DRAG
    /\ LastIsTick =>
          \A i \in Vehicles :
              (last.read.vehicles[i].status = "moving" /\ last.nextVehicles[i].platooning) =>
                  \E j \in Vehicles :
                      PartnerInRange(i, j) /\ last.read.vehicles[j].status = "moving"

\* a moving vehicle has been committed as platooning, with the low drag coefficient and
\* the platoon speed, although the only vehicle within range of it is charging at the
\* depot
C29_PlatoonWithChargingVehicle ==
    /\ LastIsTick /\ pending = <<>> /\ state.vehicles = last.nextVehicles
    /\ \E i \in Vehicles :
        /\ last.read.vehicles[i].status = "moving"
        /\ state.vehicles[i].platooning /\ state.vehicles[i].dragCoeff = LOW_DRAG
        /\ \E j \in Vehicles : PartnerInRange(i, j)
        /\ \A j \in Vehicles :
              PartnerInRange(i, j) => last.read.vehicles[j].status = "charging"

BelowThreshold(i) ==
    state.vehicles[i].status = "moving" /\ state.vehicles[i].battery < CHARGE_THRESHOLD * BU

Charging(i) == state.vehicles[i].status = "charging"

Recharged(i) ==
    state.vehicles[i].status = "moving" /\ state.vehicles[i].battery >= CHARGE_TARGET * BU

\* C30: while the Stepper keeps running in RL mode with no reset and no mode switch, every
\* vehicle whose battery is below the charging threshold is eventually charging, and
\* every charging vehicle is eventually moving again with a battery of at least 95%
C30_LowVehicleRecharges ==
    \A i \in Vehicles :
        /\ (isRunning /\ state.mode = "rl" /\ BelowThreshold(i)) ~> Charging(i)
        /\ (isRunning /\ state.mode = "rl" /\ Charging(i)) ~> Recharged(i)

\* C30 witness: a vehicle that started the run above the threshold has just been
\* released by the charger, moving with at least 95%
C30_BackInService ==
    /\ hist.scenario = "lowBattery" /\ LastIsTick /\ pending = <<>>
    /\ \E i \in Vehicles :
        /\ LowBatteryScenario.vehicles[i].battery >= CHARGE_THRESHOLD * BU
        /\ last.read.vehicles[i].status = "charging"
        /\ last.read.vehicles[i].battery < CHARGE_TARGET * BU
        /\ state.vehicles = last.nextVehicles
        /\ Recharged(i)

====
